---------------------------- MODULE SessionRuns -----------------------------
(***************************************************************************)
(* What the session lanes promise to the rest of the gateway, without      *)
(* queues, widths, generations or nested lanes: each session serves its    *)
(* runs one at a time and in the order in which it took them; a run is     *)
(* answered once; only a recovery or a restart takes the session away from *)
(* a run that is still at work.  (resolveSessionLane and enqueueSession of *)
(* src/agents/pi-embedded-runner are what implements it.)                  *)
(***************************************************************************)
EXTENDS Naturals, Sequences

CONSTANTS Runs, Sessions, SessionOf

VARIABLES
  waiting,   \* the runs a session has taken and not begun, in order
  serving,   \* the run a session serves, as a set with at most one member
  outcome    \* of a run: "none", "open" or "answered"

abstractVars == <<waiting, serving, outcome>>

Init ==
  /\ waiting = [s \in Sessions |-> <<>>]
  /\ serving = [s \in Sessions |-> {}]
  /\ outcome = [r \in Runs |-> "none"]

\* Sessions that serve nobody take up their next run, those that do go on.
Continue(w, v) ==
  /\ waiting' = [s \in Sessions |-> IF v[s] = {} /\ w[s] # <<>> THEN Tail(w[s]) ELSE w[s]]
  /\ serving' = [s \in Sessions |-> IF v[s] = {} /\ w[s] # <<>> THEN {Head(w[s])} ELSE v[s]]

Take(r) ==
  /\ outcome[r] = "none"
  /\ outcome' = [outcome EXCEPT ![r] = "open"]
  /\ Continue([waiting EXCEPT ![SessionOf[r]] = Append(@, r)], serving)

TurnAway(r) ==
  /\ outcome[r] = "none"
  /\ outcome' = [outcome EXCEPT ![r] = "answered"]
  /\ UNCHANGED <<waiting, serving>>

\* The run is over; a session that still served it goes on to the next.
Answer(r) ==
  /\ outcome[r] = "open"
  /\ outcome' = [outcome EXCEPT ![r] = "answered"]
  /\ \A i \in DOMAIN waiting[SessionOf[r]] : waiting[SessionOf[r]][i] # r
  /\ Continue(waiting, [serving EXCEPT ![SessionOf[r]] = @ \ {r}])

\* Everything that waits in a session is answered at once.
Dismiss(s) ==
  /\ waiting[s] # <<>>
  /\ waiting' = [waiting EXCEPT ![s] = <<>>]
  /\ outcome' = [r \in Runs |-> IF \E i \in DOMAIN waiting[s] : waiting[s][i] = r
                                THEN "answered" ELSE outcome[r]]
  /\ UNCHANGED serving

\* Sessions are taken away from the runs they serve, which stay open.
TakeAway(ss) ==
  /\ Continue(waiting, [s \in Sessions |-> IF s \in ss THEN {} ELSE serving[s]])
  /\ UNCHANGED outcome

Next ==
  \/ \E r \in Runs : Take(r) \/ TurnAway(r) \/ Answer(r)
  \/ \E s \in Sessions : Dismiss(s) \/ TakeAway({s})
  \/ TakeAway(Sessions)

Spec == Init /\ [][Next]_abstractVars
=============================================================================
