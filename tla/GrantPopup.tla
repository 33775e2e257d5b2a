------------------------------ MODULE GrantPopup ------------------------------
(***************************************************************************)
(* The popup on the active tab's site: it shows whether the site is        *)
(* granted, and a click grants or revokes it and registers the relay       *)
(* again, while tabs change under it and the grants change elsewhere.      *)
(*                                                                         *)
(* Translated from browser-extension/src/popup/popup.ts with the           *)
(* dependencies of firefox/popup.ts and firefox/grants.ts.  A step ends at *)
(* an await.  The statuses of the relay and of the server, which the probe *)
(* brings, are left out: only the moment it takes matters here.            *)
(***************************************************************************)
EXTENDS GrantRegistration, Sequences

CONSTANTS
  Tabs,
  MaxActs      \* bound: clicks, tab switches, navigations and grants changed elsewhere

ASSUME PopupAssumption == IsFiniteSet(Tabs) /\ MaxActs \in Nat /\ 1 \in PopupPasses

NoSite == "unsupported"
NoTab == "none"
Sites == Origins \union {NoSite}
Revisions == PopupPasses      \* a revision runs at most one task, and it one pass

VARIABLES
  site,        \* browser: what each tab shows
  active,      \* browser: the active tab
  tabEvents,   \* activations (NoTab) and navigations (their tab), not delivered yet
  revision,    \* popup
  tasks,       \* popup: the refresh or the click that runs for each revision
  pendingTab,  \* popup: the tab whose navigations matter, or NoTab
  view,        \* popup: the site and the grant it shows, and its action
  acts,
  surprised    \* history: since the popup last asked, the grants changed elsewhere, or by a
               \* click whose revision is over

popupVars == <<site, active, tabEvents, revision, tasks, pendingTab, view, acts, surprised>>
grantPopupVars == <<registrationVars, popupVars>>

Act == acts < MaxActs /\ acts' = acts + 1

NoTask == [step |-> "none", site |-> NoSite]
Running == {v \in Revisions : tasks[v].step # "none"}
AlwaysCurrent(v) == TRUE
IsCurrent(v) == v = revision

Task(v, step, s) == tasks' = [tasks EXCEPT ![v] = [step |-> step, site |-> s]]
Ends(v) == Task(v, "none", NoSite)
Suppressed == [view EXCEPT !.action = "none"]
ActionFor(grant) ==
  CASE grant = "present" -> "revoke" [] grant = "absent" -> "grant" [] OTHER -> "none"
\* render; the action is for the revision that rendered it, which is the current one.
Render(s, grant) == view' = [site |-> s, grant |-> grant, action |-> ActionFor(grant)]

----------------------------------------------------------------------------
(* refresh.                                                                *)

\* refresh up to its first await.
Refresh ==
  /\ revision + 1 \in Revisions
  /\ revision' = revision + 1
  /\ pendingTab' = NoTab /\ view' = Suppressed
  /\ Task(revision + 1, "query", NoSite)

\* The tabs' listeners: every activation, and the navigations that may matter.
TabEvent ==
  /\ tabEvents # <<>>
  /\ tabEvents' = Tail(tabEvents)
  /\ LET t == Head(tabEvents) IN
       IF t = NoTab \/ pendingTab = NoTab \/ t = pendingTab
         THEN Refresh
         ELSE UNCHANGED <<revision, pendingTab, view, tasks>>
  /\ UNCHANGED <<registrationVars, site, active, acts, surprised>>

\* tabs.query answers with the active tab; an unsupported site ends the refresh,
\* and so does a query that fails.
QueryTab(v) ==
  /\ tasks[v].step = "query"
  /\ \/ ~IsCurrent(v) /\ Ends(v) /\ UNCHANGED <<pendingTab, view, failures>>
     \/ /\ IsCurrent(v) /\ site[active] # NoSite
        /\ Task(v, "contains", site[active])
        /\ pendingTab' = active
        /\ UNCHANGED <<view, failures>>
     \/ /\ IsCurrent(v) /\ site[active] = NoSite
        /\ Ends(v) /\ Render(NoSite, "unknown") /\ UNCHANGED <<pendingTab, failures>>
     \/ /\ IsCurrent(v) /\ failures < MaxFailures
        /\ failures' = failures + 1
        /\ Ends(v) /\ Render(NoSite, "failed") /\ UNCHANGED pendingTab
  /\ UNCHANGED <<granted, registered, events, passes, stale, checked,
                 site, active, tabEvents, revision, acts, surprised>>

\* grants.contains, asked by a refresh and by the reconciliation after a click. The
\* answer is the browser's of this moment and is shown, or followed by the probe.
Contains(v) ==
  /\ tasks[v].step = "contains"
  /\ LET s == tasks[v].site IN
     \/ /\ s \in granted /\ Task(v, "probe", s)
        /\ surprised' = IF IsCurrent(v) THEN FALSE ELSE surprised
        /\ UNCHANGED <<view, failures>>
     \/ /\ s \notin granted /\ Ends(v)
        /\ IF IsCurrent(v) THEN Render(s, "absent") /\ surprised' = FALSE
                           ELSE UNCHANGED <<view, surprised>>
        /\ UNCHANGED failures
     \/ /\ failures < MaxFailures
        /\ failures' = failures + 1
        /\ Ends(v)
        /\ IF IsCurrent(v) THEN Render(s, "failed") ELSE UNCHANGED view
        /\ UNCHANGED surprised
  /\ UNCHANGED <<granted, registered, events, passes, stale, checked,
                 site, active, tabEvents, revision, pendingTab, acts>>

ProbeServer(v) ==
  /\ tasks[v].step = "probe"
  /\ Ends(v)
  /\ IF IsCurrent(v) THEN Render(tasks[v].site, "present") ELSE UNCHANGED view
  /\ UNCHANGED <<registrationVars, site, active, tabEvents, revision, pendingTab,
                 acts, surprised>>

----------------------------------------------------------------------------
(* onPrimaryAction, completeMutation and reconcile.                        *)

\* The click starts the browser's request or removal at once and hides the button.
Click ==
  /\ Act
  /\ view.action # "none" /\ view.site \in Origins
  /\ Task(revision, view.action, view.site)
  /\ view' = Suppressed
  /\ UNCHANGED <<registrationVars, site, active, tabEvents, revision, pendingTab,
                 surprised>>

\* The browser is done: a change is followed by a registration pass, a refusal of
\* the user by the reconciliation.
Mutate(v) ==
  /\ tasks[v].step \in {"grant", "revoke"}
  /\ LET s == tasks[v].site IN
     \/ /\ Regranted(IF tasks[v].step = "grant" THEN granted \union {s} ELSE granted \ {s})
        /\ Task(v, "registering", s)
        /\ passes' = [passes EXCEPT ![v] = Starting]
        /\ surprised' = (surprised \/ ~IsCurrent(v))
     \/ /\ tasks[v].step = "grant"
        /\ Task(v, "contains", s) /\ UNCHANGED <<granted, events, passes, surprised>>
  /\ UNCHANGED <<registered, stale, failures, checked,
                 site, active, tabEvents, revision, pendingTab, view, acts>>

\* afterGrantChange settled, either way.
Registered(v) ==
  /\ tasks[v].step = "registering" /\ passes[v].step = "none"
  /\ Task(v, "contains", tasks[v].site)
  /\ UNCHANGED <<registrationVars, site, active, tabEvents, revision, pendingTab, view,
                 acts, surprised>>

----------------------------------------------------------------------------
(* The user and the browser elsewhere.                                     *)

Activate(t) ==
  /\ Act /\ t # active
  /\ active' = t /\ tabEvents' = Append(tabEvents, NoTab)
  /\ UNCHANGED <<registrationVars, site, revision, tasks, pendingTab, view, surprised>>

Navigate(t, s) ==
  /\ Act /\ s # site[t]
  /\ site' = [site EXCEPT ![t] = s] /\ tabEvents' = Append(tabEvents, t)
  /\ UNCHANGED <<registrationVars, active, revision, tasks, pendingTab, view, surprised>>

\* The browser's own settings grant or revoke an origin; the popup is not told.
ChangeElsewhere(o) ==
  /\ Act
  /\ Regranted(IF o \in granted THEN granted \ {o} ELSE granted \union {o})
  /\ surprised' = TRUE
  /\ UNCHANGED <<registered, passes, stale, failures, checked,
                 site, active, tabEvents, revision, tasks, pendingTab, view>>

InitPopup ==
  /\ InitRegistration
  /\ site \in [Tabs -> Sites] /\ active \in Tabs
  /\ tabEvents = <<>> /\ acts = 0 /\ surprised = FALSE
  /\ revision = 1 /\ pendingTab = NoTab
  /\ tasks = [v \in Revisions |-> [NoTask EXCEPT !.step = IF v = 1 THEN "query" ELSE @]]
  /\ view = [site |-> NoSite, grant |-> "none", action |-> "none"]

NextPopup ==
  \/ /\ PermissionEvent \/ Restart \/ \E i \in Passes : PassStep(i)
     /\ UNCHANGED popupVars
  \/ TabEvent \/ Click
  \/ \E v \in Revisions : QueryTab(v) \/ Contains(v) \/ ProbeServer(v) \/ Mutate(v) \/ Registered(v)
  \/ \E t \in Tabs : Activate(t) \/ \E s \in Sites : Navigate(t, s)
  \/ \E o \in Origins : ChangeElsewhere(o)
PopupSpec == InitPopup /\ [][NextPopup]_grantPopupVars

----------------------------------------------------------------------------
(* Properties.                                                             *)

\* A popup at rest is about the site the active tab shows, and shows its grant as it
\* is, whatever tabs were opened and whatever was clicked on the way there. The
\* exceptions are a grant changed elsewhere, of which the popup is not told, and a
\* click the browser carries out after a later refresh already asked.
RestingPopupTellsTruth ==
  Running = {} /\ tabEvents = <<>> =>
    \/ view.grant = "failed"
    \/ /\ view.site = site[active]
       /\ view.site # NoSite =>
            surprised \/ view.grant = IF view.site \in granted THEN "present" ELSE "absent"
=============================================================================
