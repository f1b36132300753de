------------------------------ MODULE BytePipe ------------------------------
(***************************************************************************)
(* What one direction of a connection promises to the two applications: a  *)
(* pipe of bytes.  The bytes put in come out in order, each once, the end   *)
(* of the stream is only announced when all of them have reached the other *)
(* side.  A reader may be waiting, so that bytes are taken as they arrive. *)
(***************************************************************************)
EXTENDS Naturals

CONSTANT Limit   \* bound: bytes ever put in

VARIABLES
    put,       \* bytes the writer has put in
    arrived,   \* bytes that have reached the reader's side
    taken,     \* bytes the reader has taken out
    ended      \* the writer's side has announced the end of the stream

pipeVars == <<put, arrived, taken, ended>>

PipeInit == put = 0 /\ arrived = 0 /\ taken = 0 /\ ended = FALSE

Put == /\ ~ ended
       /\ put' \in (put + 1)..Limit
       /\ UNCHANGED <<arrived, taken, ended>>

Carry == /\ arrived' \in (arrived + 1)..put
         /\ taken' \in taken..arrived'
         /\ UNCHANGED <<put, ended>>

Get == /\ taken' \in (taken + 1)..arrived
       /\ UNCHANGED <<put, arrived, ended>>

End == /\ ~ ended /\ arrived = put
       /\ ended' = TRUE
       /\ UNCHANGED <<put, arrived, taken>>

PipeNext == Put \/ Carry \/ Get \/ End

PipeSpec == PipeInit /\ [][PipeNext]_pipeVars
=============================================================================
