---------------------------- MODULE PromptLedger ----------------------------
(***************************************************************************)
(* What a session promises about the prompts it accepts, whatever its host *)
(* and its loops do: an accepted prompt waits, then is stored once or is   *)
(* abandoned by a cancellation. SessionLoop implements it, with `waiting`  *)
(* the pending queue and what the loops have drained from it.              *)
(***************************************************************************)
EXTENDS Naturals, Sequences, Functions

CONSTANT Prompts

VARIABLES
  waiting,   \* accepted and not stored yet
  log,       \* stored, in the order the conversation shows them
  dropped    \* abandoned

vars == <<waiting, log, dropped>>

Known == waiting \cup Range(log) \cup dropped

Init == waiting = {} /\ log = <<>> /\ dropped = {}

\* A busy session accepts a prompt for later ...
Accept(p) ==
  /\ p \notin Known
  /\ waiting' = waiting \cup {p}
  /\ UNCHANGED <<log, dropped>>

\* ... an idle one stores it at once.
AcceptNow(p) ==
  /\ p \notin Known
  /\ log' = Append(log, p)
  /\ UNCHANGED <<waiting, dropped>>

Deliver(p) ==
  /\ p \in waiting /\ p \notin Range(log)
  /\ waiting' = waiting \ {p}
  /\ log' = Append(log, p)
  /\ UNCHANGED dropped

Abandon(S) ==
  /\ S \subseteq waiting
  /\ waiting' = waiting \ S
  /\ dropped' = dropped \cup S
  /\ UNCHANGED log

Next ==
  \/ \E p \in Prompts : Accept(p) \/ AcceptNow(p) \/ Deliver(p)
  \/ \E S \in SUBSET Prompts : Abandon(S)

Spec == Init /\ [][Next]_vars

(* A prompt is stored at most once and not both waiting and settled. *)
SettledOnce ==
  /\ \A i, j \in DOMAIN log : log[i] = log[j] => i = j
  /\ waiting \cap (Range(log) \cup dropped) = {}
  /\ Range(log) \cap dropped = {}
=============================================================================
