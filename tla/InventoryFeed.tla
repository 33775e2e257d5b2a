---------------------------- MODULE InventoryFeed ----------------------------
(***************************************************************************)
(* What the printer monitor promises the callers that watch the inventory, *)
(* without tasks, locks or wake-ups.  While somebody watches, the feed may *)
(* publish what the registration file held at some moment of the present   *)
(* session, or that a check failed, which keeps the rows already shown.    *)
(* While nobody watches it publishes nothing.                              *)
(***************************************************************************)
EXTENDS Naturals

CONSTANT Watchers

VARIABLES
  registrations, \* registrations the monitored file has received
  watching,      \* the watchers of the present session
  began,         \* registrations when the session began
  latest         \* the last published snapshot

feedVars == <<registrations, watching, began, latest>>

Nothing == [read |-> 0, printers |-> 0, warning |-> FALSE]

FeedInit ==
  /\ registrations = 0
  /\ watching = {}
  /\ began = 0
  /\ latest = Nothing

Register ==
  /\ registrations' = registrations + 1
  /\ UNCHANGED <<watching, began, latest>>

Open(w) ==
  /\ w \notin watching
  /\ watching' = watching \cup {w}
  /\ began' = IF watching = {} THEN registrations ELSE began
  /\ UNCHANGED <<registrations, latest>>

Close(w) ==
  /\ w \in watching
  /\ watching' = watching \ {w}
  /\ UNCHANGED <<registrations, began, latest>>

\* A check read the file at some moment of the session (FeedNext), and never
\* before the read the last snapshot came from.
Check(read) ==
  /\ watching # {}
  /\ latest.read <= read
  /\ latest' \in {[read |-> read, printers |-> read, warning |-> FALSE],
                  [read |-> read, printers |-> latest.printers, warning |-> TRUE]}
  /\ UNCHANGED <<registrations, watching, began>>

FeedNext ==
  \/ Register
  \/ \E w \in Watchers : Open(w) \/ Close(w)
  \/ \E read \in began..registrations : Check(read)

FeedSpec == FeedInit /\ [][FeedNext]_feedVars
=============================================================================
