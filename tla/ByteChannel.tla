---------------------------- MODULE ByteChannel -----------------------------
(***************************************************************************)
(* What UT612ByteSource promises its sinks.  The meter numbers its bytes   *)
(* 1, 2, 3, ...; some stretches of them are lost; every sink is given the  *)
(* others one by one, in their order.  The promise ends when a report has  *)
(* contradicted its length byte, which is complained about: from then on a *)
(* sink may be given anything.                                             *)
(***************************************************************************)
EXTENDS Naturals, Sequences

CONSTANTS Receivers,   \* the sinks
          Byte         \* what a sink can be called with

VARIABLES sent,      \* the last byte the meter sent
          lost,      \* the bytes that will reach no sink
          given,     \* the bytes each sink was called with
          trusted    \* no length was complained about

channelVars == <<sent, lost, given, trusted>>

ChannelInit ==
  /\ sent = 0 /\ lost = {} /\ trusted = TRUE
  /\ given = [s \in Receivers |-> <<>>]

Last(s) == IF given[s] = <<>> THEN 0 ELSE given[s][Len(given[s])]

(* A report is sent, and is lost as a whole or not at all. *)
Send ==
  /\ sent' > sent
  /\ lost' = lost \/ lost' = lost \cup (sent + 1 .. sent')
  /\ UNCHANGED <<given, trusted>>

Give(s, b) == given' = [given EXCEPT ![s] = Append(@, b)] /\ UNCHANGED <<sent, lost, trusted>>

(* Between the byte a sink was last given and its next one all are lost.   *)
Deliver(s) ==
  \E b \in (Last(s) + 1 .. sent) \ lost :
    (Last(s) + 1 .. b - 1) \subseteq lost /\ Give(s, b)

Distrust == trusted' = FALSE /\ UNCHANGED <<sent, lost, given>>

Garble(s) == ~trusted /\ \E b \in Byte : Give(s, b)

ChannelNext == Send \/ Distrust \/ \E s \in Receivers : Deliver(s) \/ Garble(s)

ChannelSpec == ChannelInit /\ [][ChannelNext]_channelVars
=============================================================================
