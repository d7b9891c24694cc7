---------------------------- MODULE SerialFanout ----------------------------
(***************************************************************************)
(* What the stream server promises, without its ring buffer: the bytes     *)
(* taken off the UART form one stream, every attached client has a cursor  *)
(* into it, what a client is sent is exactly the stretch of the stream at  *)
(* its cursor, and a client is moved forward over bytes it was not sent    *)
(* only when the bytes waiting on the UART would otherwise put it more     *)
(* than Cap bytes behind.                                                  *)
(*                                                                         *)
(* Bytes are identified by their position in the stream.                   *)
(***************************************************************************)
EXTENDS Integers, Sequences

CONSTANTS Clients,   \* connection slots
          Cap        \* bytes a client may lag behind

VARIABLES taken,     \* length of the stream: bytes read off the UART so far
          waiting,   \* bytes received by the UART and not yet read
          attached,  \* clients being served
          cursor,    \* next stream position of each client
          sent       \* the last chunk handed to a client

vars == <<taken, waiting, attached, cursor, sent>>

NothingSent == <<>>

Least(a, b)    == IF a <= b THEN a ELSE b
Greatest(a, b) == IF a <= b THEN b ELSE a

\* The oldest position that is still held once the waiting bytes are read.
Horizon == Least(taken, taken + waiting - Cap)

Init ==
  /\ taken = 0
  /\ waiting = 0
  /\ attached = {}
  /\ cursor = [c \in Clients |-> 0]
  /\ sent = NothingSent

Receive ==
  /\ waiting' = waiting + 1
  /\ UNCHANGED <<taken, attached, cursor, sent>>

Attach(c) ==
  /\ c \notin attached
  /\ attached' = attached \cup {c}
  /\ cursor' = [cursor EXCEPT ![c] = taken]
  /\ UNCHANGED <<taken, waiting, sent>>

\* Reading k bytes moves no client, or every attached client past Horizon.
Take(k) ==
  /\ k \in 1..waiting
  /\ taken' = taken + k
  /\ waiting' = waiting - k
  /\ \/ cursor' = cursor
     \/ cursor' = [c \in Clients |-> IF c \in attached
                                       THEN Greatest(cursor[c], Horizon)
                                       ELSE cursor[c]]
  /\ UNCHANGED <<attached, sent>>

Send(c, k) ==
  /\ c \in attached
  /\ k \in 1..(taken - cursor[c])
  /\ sent' = <<c, [i \in 1..k |-> cursor[c] + i - 1]>>
  /\ cursor' = [cursor EXCEPT ![c] = @ + k]
  /\ UNCHANGED <<taken, waiting, attached>>

Detach(S) ==
  /\ S \subseteq attached
  /\ attached' = attached \ S
  /\ UNCHANGED <<taken, waiting, cursor, sent>>

Next ==
  \/ Receive
  \/ \E c \in Clients : Attach(c)
  \/ \E k \in 1..waiting : Take(k)
  \/ \E c \in attached : \E k \in 1..(taken - cursor[c]) : Send(c, k)
  \/ \E S \in SUBSET attached : Detach(S)

Spec == Init /\ [][Next]_vars

=============================================================================
