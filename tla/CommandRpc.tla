------------------------------ MODULE CommandRpc ------------------------------
(***************************************************************************)
(* What a caller of TcpConnection::sendCommand may rely on: calls are made *)
(* one at a time, only the command of the call in progress reaches the     *)
(* camera, a call that returns after an acknowledgement has been executed  *)
(* at least once, and a call that is refused has not been executed at all. *)
(* A call that gives up says nothing about the command.                    *)
(***************************************************************************)
EXTENDS Naturals, Sequences

CONSTANT MaxCalls

VARIABLES
  call,     \* the call in progress, 0 when there is none
  last,     \* the number of calls made so far; the calls are numbered from 1
  outcome,  \* how the last call ended
  log       \* the commands the camera executed, in order

vars == <<call, last, outcome, log>>

Refusals == {"skipped", "threwBadDescriptor"}
Failures == {"exhausted", "threwClosed"}

Init ==
  /\ call = 0
  /\ last = 0
  /\ outcome = "none"
  /\ log = <<>>

Begin ==
  /\ call = 0
  /\ last < MaxCalls
  /\ call' = last + 1
  /\ last' = last + 1
  /\ outcome' = "none"
  /\ UNCHANGED log

\* The call returns at once and its command goes nowhere.
Refuse ==
  /\ call = 0
  /\ last < MaxCalls
  /\ last' = last + 1
  /\ outcome' \in Refusals
  /\ UNCHANGED <<call, log>>

\* The camera executes the pending command, possibly once more.
Execute ==
  /\ call # 0
  /\ log' = Append(log, call)
  /\ UNCHANGED <<call, last, outcome>>

ReturnAcked ==
  /\ call # 0
  /\ \E i \in DOMAIN log : log[i] = call
  /\ call' = 0
  /\ outcome' = "acked"
  /\ UNCHANGED <<last, log>>

GiveUp ==
  /\ call # 0
  /\ call' = 0
  /\ outcome' \in Failures
  /\ UNCHANGED <<last, log>>

Next == Begin \/ Refuse \/ Execute \/ ReturnAcked \/ GiveUp

Spec == Init /\ [][Next]_vars
===============================================================================
