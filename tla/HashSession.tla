----------------------------- MODULE HashSession -----------------------------
(***************************************************************************)
(* What the hash half of the page promises its user, with no threads in    *)
(* it: one calculation at a time, started only from a page that is at      *)
(* rest; what is shown and copied is the whole result of the last one.     *)
(***************************************************************************)
EXTENDS Naturals

CONSTANT NoRun

VARIABLES phase, run, shown, copied

hsVars == <<phase, run, shown, copied>>

HSInit == phase = "closed" /\ run = NoRun /\ shown = NoRun /\ copied = NoRun

Open == phase = "closed" /\ phase' = "rest" /\ UNCHANGED <<run, shown, copied>>

\* Starting wipes what an earlier run left.
Start == /\ phase = "rest"
         /\ run' = run + 1 /\ shown' = NoRun /\ phase' \in {"busy", "rest"}
         /\ UNCHANGED copied

Succeed == /\ phase = "busy"
           /\ phase' = "rest" /\ shown' = run
           /\ UNCHANGED <<run, copied>>

Fail == /\ phase = "busy"
        /\ phase' = "rest"
        /\ UNCHANGED <<run, shown, copied>>

Copy == /\ phase = "rest" /\ shown # NoRun
        /\ copied' = shown
        /\ UNCHANGED <<phase, run, shown>>

Close == /\ phase \in {"busy", "rest"}
         /\ phase' = "over"
         /\ UNCHANGED <<run, shown, copied>>

HSNext == Open \/ Start \/ Succeed \/ Fail \/ Copy \/ Close

HSSpec == HSInit /\ [][HSNext]_hsVars
=============================================================================
