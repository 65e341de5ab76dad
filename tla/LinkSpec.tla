------------------------------ MODULE LinkSpec ------------------------------
(***************************************************************************)
(* What a NetworkInterface promises the layer above, in real time: a       *)
(* datagram leaves at once for the address its next hop last announced,    *)
(* if that was less than EntryTime ago, and else waits.  It leaves, in     *)
(* turn, as soon as its next hop announces itself, or is given up after    *)
(* RetryTime.  Nothing is sent twice, to anybody else, or past another.    *)
(* What is known and what waits does not survive a wrap of the clock.      *)
(***************************************************************************)
EXTENDS Subsequences

CONSTANTS RetryTime, EntryTime, ClockSize, Datagram, IP, Ethernet

VARIABLES
  time,       \* real time
  heard,      \* what each address last announced, and when, while it lasts
  waiting,    \* the datagrams that wait, and since when
  left        \* the datagrams that leave in a step, and where to

vars == <<time, heard, waiting, left>>

Init == time = 0 /\ heard = << >> /\ waiting = << >> /\ left = << >>

SameTurn(t, u) == t \div ClockSize = u \div ClockSize

Known(hop) == hop \in DOMAIN heard

Leave(hop) ==
  \E dgram \in Datagram :
    /\ Known(hop)
    /\ left' = <<[dgram |-> dgram, to |-> heard[hop].ethernet]>>
    /\ UNCHANGED <<time, heard, waiting>>

Wait(hop) ==
  \E dgram \in Datagram :
    /\ ~Known(hop)
    /\ waiting' = Append(waiting, [dgram |-> dgram, hop |-> hop, since |-> time])
    /\ left' = << >>
    /\ UNCHANGED <<time, heard>>

Announce(hop, ethernet) ==
  LET its     == {i \in DOMAIN waiting : waiting[i].hop = hop}
      leaving == Chosen(waiting, its)
  IN  /\ heard' = [h \in DOMAIN heard \cup {hop} |->
                     IF h = hop THEN [ethernet |-> ethernet, at |-> time]
                     ELSE heard[h]]
      /\ waiting' = Chosen(waiting, DOMAIN waiting \ its)
      /\ left' = [i \in DOMAIN leaving |->
                    [dgram |-> leaving[i].dgram, to |-> ethernet]]
      /\ UNCHANGED time

Pass ==
  LET staying == {i \in DOMAIN waiting :
                     /\ SameTurn(waiting[i].since, time')
                     /\ time' - waiting[i].since <= RetryTime}
      lasting == {hop \in DOMAIN heard :
                     /\ SameTurn(heard[hop].at, time')
                     /\ time' - heard[hop].at < EntryTime}
  IN  /\ time' > time
      /\ heard' = [hop \in lasting |-> heard[hop]]
      /\ waiting' = Chosen(waiting, staying)
      /\ left' = << >>

(* Frames that concern nobody here, and datagrams that arrive.             *)
Idle == left' = << >> /\ UNCHANGED <<time, heard, waiting>>

Next ==
  \/ \E hop \in IP : Leave(hop) \/ Wait(hop)
  \/ \E hop \in IP, ethernet \in Ethernet : Announce(hop, ethernet)
  \/ Pass
  \/ Idle

Spec == Init /\ [][Next]_vars
=============================================================================
