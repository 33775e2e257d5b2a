-------------------------- MODULE GrantRegistration --------------------------
(***************************************************************************)
(* The registration of the relay's content script, which has to follow the *)
(* origins the user granted.  The background drains permission events into *)
(* passes; a click in the popup runs passes of its own.                    *)
(*                                                                         *)
(* Translated from browser-extension/src/registration.ts.  A step is a     *)
(* promise continuation with the browser call it makes.  The background's  *)
(* revision counter is a flag: an event arrived since the pass began.      *)
(***************************************************************************)
EXTENDS Naturals, FiniteSets

CONSTANTS
  Origins,       \* grantable origins
  PopupPasses,   \* the passes popups may run, positive numbers
  MaxFailures    \* bound: browser calls that reject for no visible reason, and
                 \* restarts of the background

ASSUME RegistrationAssumption ==
  /\ IsFiniteSet(Origins) /\ MaxFailures \in Nat
  /\ IsFiniteSet(PopupPasses) /\ PopupPasses \subseteq Nat \ {0}

Background == 0
Passes == {Background} \union PopupPasses

VARIABLES
  granted,      \* browser: the granted origins
  registered,   \* browser: the matches of the registered relay, {} without one
  events,       \* browser: permission events for the background, 0, 1 or more as 2
  passes,       \* where each pass of registerGrantedRelay stands
  stale,        \* background: an event arrived since the pass observed the revision
  failures,
  checked       \* history: nothing but the background wrote the registration since
                \* its last pass read it, and that pass did not fail

registrationVars == <<granted, registered, events, passes, stale, failures, checked>>

Resting == [step |-> "none", matches |-> {}, exists |-> FALSE, failed |-> FALSE]
Starting == [Resting EXCEPT !.step = "grants"]
Failing == [Resting EXCEPT !.failed = TRUE]

\* What a pass that returns or throws leaves. drain starts over when an event came
\* in, but not after a failure; a popup awaits the pass's result instead.
Finished(i, failed, late) ==
  passes' = [passes EXCEPT ![i] =
    IF i = Background /\ late /\ ~failed THEN Starting
    ELSE IF i = Background /\ failed THEN Failing ELSE Resting]

\* isCurrent: only the background's passes give up on an event.
Overtaken(i) == i = Background /\ stale

----------------------------------------------------------------------------
(* registerGrantedRelay, one browser call per step.                        *)

ReadGrants(i) ==
  /\ passes[i].step = "grants"
  /\ passes' = [passes EXCEPT ![i].step = "scripts", ![i].matches = granted]
  /\ UNCHANGED <<granted, registered, events, stale, failures, checked>>

ReadScripts(i) ==
  /\ passes[i].step = "scripts" /\ ~Overtaken(i)
  /\ passes' = [passes EXCEPT ![i].step = "write", ![i].exists = registered # {}]
  /\ checked' = (checked \/ i = Background)
  /\ UNCHANGED <<granted, registered, events, stale, failures>>

\* unregister, update or register: the browser rejects an id that is there already,
\* or is not there.
Write(i) ==
  /\ passes[i].step = "write" /\ ~Overtaken(i)
  /\ LET p == passes[i]
         nothing == p.matches = {} /\ ~p.exists
         rejected == ~nothing /\ p.exists # (registered # {})
     IN /\ registered' = IF nothing \/ rejected THEN registered ELSE p.matches
        /\ Finished(i, rejected, FALSE)
        /\ checked' = (checked /\ (IF i = Background THEN ~rejected ELSE nothing \/ rejected))
  /\ UNCHANGED <<granted, events, stale, failures>>

\* An event made the pass give up: the next one reads the grants again.
GiveUp(i) ==
  /\ passes[i].step \in {"scripts", "write"} /\ Overtaken(i)
  /\ Finished(i, FALSE, TRUE)
  /\ stale' = FALSE
  /\ UNCHANGED <<granted, registered, events, failures, checked>>

Reject(i) ==
  /\ passes[i].step # "none" /\ failures < MaxFailures
  /\ failures' = failures + 1
  /\ Finished(i, TRUE, FALSE)
  /\ checked' = (checked /\ i # Background)
  /\ UNCHANGED <<granted, registered, events, stale>>

----------------------------------------------------------------------------
(* installGrantRegistration.                                               *)

RefreshedWhenIdle ==
  IF passes[Background].step = "none"
    THEN passes' = [passes EXCEPT ![Background] = Starting] /\ stale' = FALSE
    ELSE UNCHANGED <<passes, stale>>

\* refresh: the revision moves, and a drain starts unless one is running.
Refreshed ==
  IF passes[Background].step = "none"
    THEN passes' = [passes EXCEPT ![Background] = Starting] /\ stale' = FALSE
    ELSE UNCHANGED passes /\ stale' = TRUE

PermissionEvent ==
  /\ events > 0
  /\ events' = events - 1
  /\ Refreshed
  /\ UNCHANGED <<granted, registered, failures, checked>>

\* A browser that stops and starts the background runs it from the top.
Restart ==
  /\ failures < MaxFailures
  /\ failures' = failures + 1
  /\ passes' = [passes EXCEPT ![Background] = Starting]
  /\ stale' = FALSE
  /\ UNCHANGED <<granted, registered, events, checked>>

\* The grants change and the background will hear of it.
Regranted(origins) ==
  /\ granted' = origins
  /\ events' = IF origins = granted \/ events = 2 THEN events ELSE events + 1

InitRegistration ==
  /\ granted \in SUBSET Origins /\ registered = {}
  /\ events = 0 /\ stale = FALSE /\ failures = 0 /\ checked = FALSE
  /\ passes = [i \in Passes |-> IF i = Background THEN Starting ELSE Resting]

PassStep(i) ==
  ReadGrants(i) \/ ReadScripts(i) \/ Write(i) \/ GiveUp(i) \/ Reject(i)

AtRest == events = 0 /\ \A i \in Passes : passes[i].step = "none"

\* When every event was handled and every pass is over, the relay is registered for
\* exactly the granted origins, provided the background's last pass did not fail
\* and no popup wrote the registration after that pass read it.
RegistrationFollowsGrants == AtRest /\ checked => registered = granted

\* The documented promise, without those provisos: once a background pass has
\* followed a revocation and nothing is under way, the origin is not registered.
RevokedIsUnregistered ==
  AtRest /\ ~passes[Background].failed => registered \subseteq granted
=============================================================================
