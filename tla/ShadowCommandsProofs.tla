------------------------ MODULE ShadowCommandsProofs ------------------------
(***************************************************************************)
(* Theorems about ShadowCommands, for every value of its constants.        *)
(***************************************************************************)
EXTENDS ShadowCommands, SequenceTheorems, TLAPS

(* Removing one element of a sequence leaves the others in their order.    *)
LEMMA RemoveAtProperties ==
    ASSUME NEW S, NEW q \in Seq(S), NEW i \in 1 .. Len(q)
    PROVE  /\ RemoveAt(q, i) \in Seq(S)
           /\ Len(RemoveAt(q, i)) = Len(q) - 1
           /\ \A j \in 1 .. Len(q) - 1 :
                RemoveAt(q, i)[j] = IF j < i THEN q[j] ELSE q[j + 1]
<1> DEFINE a == SubSeq(q, 1, i - 1)
           b == SubSeq(q, i + 1, Len(q))
<1>1. a \in Seq(S) /\ Len(a) = i - 1 /\ \A j \in 1 .. i - 1 : a[j] = q[j]
  BY SubSeqProperties
<1>2. b \in Seq(S) /\ Len(b) = Len(q) - i /\ \A j \in 1 .. Len(q) - i : b[j] = q[i + j]
  BY SubSeqProperties
<1>3. /\ a \o b \in Seq(S) /\ Len(a \o b) = Len(a) + Len(b)
      /\ \A j \in 1 .. Len(a) + Len(b) :
           (a \o b)[j] = IF j <= Len(a) THEN a[j] ELSE b[j - Len(a)]
  BY <1>1, <1>2, ConcatProperties
<1>4. RemoveAt(q, i) = a \o b
  BY DEF RemoveAt
<1> HIDE DEF a, b
<1>5. ASSUME NEW j \in 1 .. Len(q) - 1
      PROVE  (a \o b)[j] = IF j < i THEN q[j] ELSE q[j + 1]
  <2>1. CASE j < i
    BY <1>1, <1>2, <1>3, <2>1
  <2>2. CASE ~(j < i)
    <3>1. (a \o b)[j] = b[j - (i - 1)]
      BY <1>1, <1>2, <1>3, <2>2
    <3>2. b[j - (i - 1)] = q[i + (j - (i - 1))]
      BY <1>2, <2>2
    <3>3. i + (j - (i - 1)) = j + 1
      OBVIOUS
    <3> QED BY <3>1, <3>2, <3>3, <2>2
  <2> QED BY <2>1, <2>2
<1>6. Len(a \o b) = Len(q) - 1
  BY <1>1, <1>2, <1>3
<1> QED
  BY <1>3, <1>4, <1>5, <1>6

(* Queueing a command keeps the queue a sequence of commands, and adds it   *)
(* at the end.                                                             *)
LEMMA PushProperties ==
    ASSUME NEW q \in Seq(Cmds), NEW c \in Cmds \cup {None}
    PROVE  Push(q, c) \in Seq(Cmds)
BY AppendProperties DEF Push, Cmds, None

(* The sequence counter stays in range and always moves.                   *)
LEMMA BumpProperties ==
    ASSUME NEW n \in 0 .. SeqWrap - 1
    PROVE  Bump(n) \in 0 .. SeqWrap - 1 /\ Bump(n) # n
BY BoundsAssumption DEF Bump

(* The number that w bumps make of n.                                      *)
After(n, w) == IF n + w < SeqWrap THEN n + w ELSE n + w - SeqWrap

LEMMA BumpAfter ==
    ASSUME NEW n \in 0 .. SeqWrap - 1, NEW w \in 0 .. SeqWrap - 1
    PROVE  Bump(After(n, w)) = After(n, w + 1) \/ w = SeqWrap - 1
<1>0. n \in Nat /\ w \in Nat /\ SeqWrap \in Nat /\ n < SeqWrap
  BY BoundsAssumption
<1>1. CASE n + w < SeqWrap - 1
  BY <1>0, <1>1 DEF Bump, After
<1>2. CASE n + w = SeqWrap - 1
  BY <1>0, <1>2 DEF Bump, After
<1>3. CASE n + w > SeqWrap - 1
  <2>1. After(n, w) = n + w - SeqWrap /\ After(n, w + 1) = n + (w + 1) - SeqWrap
    BY <1>0, <1>3 DEF After
  <2>2. CASE n + w - SeqWrap = SeqWrap - 1
    <3>1. w = SeqWrap - 1
      BY <1>0, <2>2
    <3> QED
      BY <3>1
  <2>3. CASE n + w - SeqWrap # SeqWrap - 1
    BY <1>0, <2>1, <2>3 DEF Bump
  <2> QED
    BY <2>2, <2>3
<1> QED
  BY <1>0, <1>1, <1>2, <1>3

-----------------------------------------------------------------------------
(* The type invariant.                                                     *)
THEOREM TypeCorrect == Spec => []TypeOK
<1> USE BoundsAssumption
<1>1. Init => TypeOK
  <2> SUFFICES ASSUME Init PROVE TypeOK
    OBVIOUS
  <2>1. CloudTypeOK
    BY EmptySeq DEF Init, CloudTypeOK
  <2>2. AgentTypeOK
    <3>1. seq \in 0 .. SeqWrap - 1 /\ pending \in Cmds \cup {None}
      BY DEF Init
    <3> QED
      BY <3>1, Zenon DEF Init, AgentTypeOK
  <2>3. ThreadTypeOK
    BY DEF Init, ThreadTypeOK, InFlight
  <2>4. ObservedTypeOK
    <3>1. issued \in 0 .. MaxCmds /\ written \subseteq Cmds /\ lastWritten \in Cmds \cup {None}
      BY DEF Init
    <3>2. drops \in 0 .. MaxDrops /\ restarts \in 0 .. MaxRestarts
      BY DEF Init
    <3>3. overtook \in BOOLEAN
      BY Zenon DEF Init
    <3> QED
      BY <3>1, <3>2, <3>3, Zenon DEF ObservedTypeOK
  <2> QED
    BY <2>1, <2>2, <2>3, <2>4 DEF TypeOK
<1>2. TypeOK /\ [Next]_vars => TypeOK'
  <2> SUFFICES ASSUME TypeOK, [Next]_vars PROVE TypeOK'
    OBVIOUS
  <2>0. CloudTypeOK /\ AgentTypeOK /\ ThreadTypeOK /\ ObservedTypeOK
    BY DEF TypeOK
  <2> USE <2>0
  <2>1. CASE HandleCommand
    <3>1. issued + 1 \in Cmds
      BY <2>1 DEF HandleCommand, ObservedTypeOK, Cmds
    <3>2. CloudTypeOK'
      BY <2>1, <3>1, AppendProperties DEF HandleCommand, CloudTypeOK
    <3>3. ObservedTypeOK'
      BY <2>1 DEF HandleCommand, ObservedTypeOK, faults
    <3> QED
      BY <2>1, <3>2, <3>3
      DEF HandleCommand, TypeOK, AgentTypeOK, ThreadTypeOK, InFlight, shadow, thread
  <2>2. CASE ShadowService
    <3>1. desired' \in Cmds \cup {None}
      BY <2>2 DEF ShadowService, ShadowTakes, CloudTypeOK
    <3>2. down' \in Seq(Cmds)
      BY <2>2, <3>1, PushProperties DEF ShadowService, ShadowTakes, CloudTypeOK
    <3>3. up' \in Seq({"report", "null", "get"})
      BY <2>2, HeadTailProperties DEF ShadowService, ShadowTakes, CloudTypeOK
    <3> QED
      BY <2>2, <3>1, <3>2, <3>3
      DEF ShadowService, TypeOK, CloudTypeOK, AgentTypeOK, ThreadTypeOK,
          ObservedTypeOK, InFlight, shadow, thread, observed, faults
  <2>3. CASE Disconnect \/ DisconnectBeforePuback
    <3>1. LoseConnection /\ up' = up /\ desired' \in {desired, None}
      BY <2>3 DEF Disconnect, DisconnectBeforePuback
    <3>2. CloudTypeOK'
      BY <3>1, EmptySeq DEF LoseConnection, CloudTypeOK
    <3>3. ObservedTypeOK'
      BY <3>1 DEF LoseConnection, ObservedTypeOK, observed
    <3> QED
      BY <3>1, <3>2, <3>3
      DEF LoseConnection, TypeOK, AgentTypeOK, ThreadTypeOK, InFlight, shadow, thread
  <2>4. CASE OnConnect
    <3>1. /\ Append(up, "get") \in Seq({"report", "null", "get"})
          /\ Cons("get", up) \in Seq({"report", "null", "get"})
      BY AppendProperties, ConcatProperties DEF CloudTypeOK, Cons
    <3> QED
      BY <2>4, <3>1
      DEF OnConnect, TypeOK, CloudTypeOK, AgentTypeOK, ThreadTypeOK,
          ObservedTypeOK, InFlight, shadow, thread, observed, faults
  <2>5. CASE ApplyDesired
    <3>1. PICK i \in 1 .. Len(down) :
             /\ InFlight => window < SeqWrap - 1
             /\ pending' = down[i]
             /\ seq' = Bump(seq)
             /\ window' = IF InFlight THEN window + 1 ELSE window
             /\ down' = RemoveAt(down, i)
             /\ overtook' = (overtook \/ Overtakes(i))
             /\ UNCHANGED <<desired, up, connected, clear, pc, peeked, observed, drops, restarts>>
      BY <2>5 DEF ApplyDesired
    <3>2. CloudTypeOK'
      BY <3>1, RemoveAtProperties DEF CloudTypeOK
    <3>3. AgentTypeOK'
      BY <3>1, ElementOfSeq, BumpProperties DEF AgentTypeOK, CloudTypeOK
    <3>4. ThreadTypeOK'
      BY <3>1 DEF ThreadTypeOK, InFlight
    <3>5. overtook' \in BOOLEAN
      BY <3>1, Zenon DEF Overtakes
    <3>6. ObservedTypeOK'
      BY <3>1, <3>5, Zenon DEF ObservedTypeOK, observed
    <3> QED
      BY <3>2, <3>3, <3>4, <3>6 DEF TypeOK
  <2>6. CASE ReportLinkUp \/ ReportLinkDown
    <3>1. PublishReported /\ pc' \in {"peek", "report"}
      BY <2>6 DEF ReportLinkUp, ReportLinkDown
    <3>2. /\ Append(up, "null") \in Seq({"report", "null", "get"})
          /\ Append(up, "report") \in Seq({"report", "null", "get"})
      BY AppendProperties DEF CloudTypeOK
    <3>3. up' \in {up, Append(up, "null"), Append(up, "report")}
      BY <3>1 DEF PublishReported
    <3>4. CloudTypeOK'
      BY <3>1, <3>2, <3>3 DEF PublishReported, CloudTypeOK
    <3> QED
      BY <3>1, <3>4
      DEF PublishReported, TypeOK, AgentTypeOK, ThreadTypeOK, ObservedTypeOK,
          InFlight, observed, faults
  <2>7. CASE PeekNothing \/ Peek
    BY <2>7 DEF PeekNothing, Peek, TypeOK, CloudTypeOK, AgentTypeOK, ThreadTypeOK,
                ObservedTypeOK, InFlight, cloud, shadow, observed, faults
  <2>8. CASE WriteOk \/ WriteFail
    BY <2>8 DEF WriteOk, WriteFail, Took, TypeOK, CloudTypeOK, AgentTypeOK,
                ThreadTypeOK, ObservedTypeOK, InFlight, cloud, shadow, observed, faults
  <2>9. CASE Ack
    BY <2>9 DEF Ack, TypeOK, CloudTypeOK, AgentTypeOK, ThreadTypeOK,
                ObservedTypeOK, InFlight, cloud, observed, faults
  <2>10. CASE Restart
    <3>1. CloudTypeOK'
      BY <2>10, EmptySeq DEF Restart, CloudTypeOK
    <3>2. AgentTypeOK'
      <4>1. seq' \in 0 .. SeqWrap - 1 /\ pending' \in Cmds \cup {None}
        BY <2>10 DEF Restart
      <4> QED
        BY <2>10, <4>1, Zenon DEF Restart, AgentTypeOK
    <3>3. ThreadTypeOK'
      BY <2>10 DEF Restart, ThreadTypeOK, InFlight
    <3>4. ObservedTypeOK'
      BY <2>10 DEF Restart, ObservedTypeOK, observed
    <3> QED
      BY <3>1, <3>2, <3>3, <3>4 DEF TypeOK
  <2>11. CASE UNCHANGED vars
    BY <2>11 DEF vars, cloud, shadow, thread, observed, faults, TypeOK, CloudTypeOK,
                 AgentTypeOK, ThreadTypeOK, ObservedTypeOK, InFlight
  <2> QED
    BY <2>1, <2>2, <2>3, <2>4, <2>5, <2>6, <2>7, <2>8, <2>9, <2>10, <2>11 DEF Next
<1> QED
  BY <1>1, <1>2, PTL DEF Spec

-----------------------------------------------------------------------------
(* Between the peek and the ack the sequence number counts the commands    *)
(* accepted since the peek, the accepted command is the peeked one as long *)
(* as that count is 0, and what is about to be acked was written.          *)
AckInv ==
    InFlight =>
        /\ pending # None
        /\ seq = After(peeked.seq, window)
        /\ window = 0 => pending = peeked.cmd
        /\ pc = "ack" => peeked.cmd \in written

LEMMA AckInvInitial == Init => AckInv
BY DEF Init, AckInv, InFlight

LEMMA AckInvInductive == TypeOK /\ AckInv /\ [Next]_vars => AckInv'
<1> USE BoundsAssumption
<1> SUFFICES ASSUME TypeOK, AckInv, [Next]_vars PROVE AckInv'
  OBVIOUS
<1>0. CloudTypeOK /\ AgentTypeOK /\ ThreadTypeOK /\ ObservedTypeOK
  BY DEF TypeOK
<1>1. CASE HandleCommand \/ ShadowService \/ Disconnect \/ DisconnectBeforePuback
           \/ OnConnect \/ UNCHANGED vars
  <2>1. UNCHANGED <<shadow, thread, written>>
    BY <1>1 DEF HandleCommand, ShadowService, Disconnect, DisconnectBeforePuback,
                LoseConnection, OnConnect, vars, observed
  <2> QED
    BY <2>1 DEF AckInv, InFlight, shadow, thread
<1>2. CASE ApplyDesired
  <2>1. PICK i \in 1 .. Len(down) :
           /\ InFlight => window < SeqWrap - 1
           /\ pending' = down[i]
           /\ seq' = Bump(seq)
           /\ window' = IF InFlight THEN window + 1 ELSE window
           /\ UNCHANGED <<pc, peeked, observed>>
    BY <1>2 DEF ApplyDesired
  <2>2. pending' # None
    BY <1>0, <2>1, ElementOfSeq DEF CloudTypeOK, Cmds, None
  <2>3. ASSUME InFlight
        PROVE  window' = window + 1 /\ seq' = After(peeked.seq, window')
    <3>1. /\ peeked.seq \in 0 .. SeqWrap - 1 /\ window \in 0 .. SeqWrap - 1
          /\ window # SeqWrap - 1
      BY <1>0, <2>1, <2>3 DEF ThreadTypeOK
    <3>2. seq = After(peeked.seq, window) /\ seq' = Bump(seq) /\ window' = window + 1
      BY <2>1, <2>3 DEF AckInv
    <3>3. Bump(After(peeked.seq, window)) = After(peeked.seq, window + 1)
      BY <3>1, BumpAfter
    <3> QED
      BY <3>2, <3>3
  <2>4. window + 1 # 0
    BY <1>0 DEF ThreadTypeOK
  <2> QED
    BY <2>1, <2>2, <2>3, <2>4 DEF AckInv, InFlight, observed
<1>3. CASE ReportLinkUp \/ ReportLinkDown \/ PeekNothing \/ Ack \/ Restart
  BY <1>3 DEF ReportLinkUp, ReportLinkDown, PeekNothing, Ack, Restart, AckInv, InFlight
<1>4. CASE Peek
  <2>1. After(seq, 0) = seq
    BY <1>0 DEF AgentTypeOK, After
  <2> QED
    BY <1>4, <2>1 DEF Peek, AckInv, InFlight, shadow
<1>5. CASE WriteOk
  BY <1>5 DEF WriteOk, Took, AckInv, InFlight, shadow
<1>6. CASE WriteFail
  BY <1>6 DEF WriteFail, AckInv, InFlight
<1> QED
  BY <1>1, <1>2, <1>3, <1>4, <1>5, <1>6 DEF Next

(* A matching sequence number at the ack means that nothing was accepted   *)
(* since the peek: fewer than SeqWrap commands cannot bring it round.       *)
LEMMA AckMatches ==
    ASSUME TypeOK, AckInv, pc = "ack", peeked.seq = seq
    PROVE  pending = peeked.cmd /\ pending \in written
<1>1. peeked.seq \in 0 .. SeqWrap - 1 /\ window \in 0 .. SeqWrap - 1
  BY DEF TypeOK, ThreadTypeOK
<1>2. seq = After(peeked.seq, window)
  BY DEF AckInv, InFlight
<1>3. window = 0
  BY <1>1, <1>2, BoundsAssumption DEF After
<1> QED
  BY <1>3 DEF AckInv, InFlight

(* A running agent forgets a command only once that very command has been  *)
(* written (shadow.c:676-684), in whatever order the deltas arrive.        *)
THEOREM AckSafe == Spec => AckOnlyWritten
<1>1. TypeOK /\ AckInv /\ [Next]_vars
        => [pending # None /\ pending' = None /\ restarts' = restarts
              => pending \in written]_vars
  <2> SUFFICES ASSUME TypeOK, AckInv, Next,
                      pending # None, pending' = None, restarts' = restarts
               PROVE  pending \in written
    BY DEF vars
  <2>1. CASE Ack
    BY <2>1, AckMatches DEF Ack
  <2>2. CASE ApplyDesired
    <3>1. PICK i \in 1 .. Len(down) : pending' = down[i]
      BY <2>2 DEF ApplyDesired
    <3>2. down \in Seq(Cmds)
      BY DEF TypeOK, CloudTypeOK
    <3> QED
      BY <3>1, <3>2, ElementOfSeq, BoundsAssumption DEF Cmds, None
  <2>3. CASE Restart
    BY <2>3, BoundsAssumption DEF Restart, TypeOK, ObservedTypeOK
  <2>4. CASE ~Ack /\ ~ApplyDesired /\ ~Restart
    BY <2>4 DEF Next, HandleCommand, ShadowService, Disconnect, DisconnectBeforePuback,
                LoseConnection, OnConnect, ReportLinkUp, ReportLinkDown, PublishReported,
                PeekNothing, Peek, WriteOk, WriteFail, shadow
  <2> QED
    BY <2>1, <2>2, <2>3, <2>4
<1> QED
  BY <1>1, TypeCorrect, AckInvInitial, AckInvInductive, PTL DEF Spec, AckOnlyWritten

-----------------------------------------------------------------------------
(* Whatever is held or on its way was issued, and the cloud wants nothing  *)
(* but the latest command: in whatever order the messages arrive.          *)
IssuedInv ==
    /\ desired \in {None, issued} /\ pending <= issued /\ lastWritten <= issued
    /\ InFlight => peeked.cmd <= issued
    /\ \A i \in 1 .. Len(down) : down[i] <= issued

(* As long as no message overtook an older one, commands stay in the order *)
(* of their issue all the way down: what was written last, what the        *)
(* telemetry thread holds, what the shadow module accepted and what is on  *)
(* the way never get younger towards the controller.                       *)
HeldInOrder ==
    /\ pending # None => lastWritten <= pending
    /\ InFlight => lastWritten <= peeked.cmd /\ peeked.cmd <= pending

QueueAfterHeld ==
    \A i \in 1 .. Len(down) : pending <= down[i] /\ lastWritten <= down[i]

QueueSorted ==
    \A i, j \in 1 .. Len(down) : i <= j => down[i] <= down[j]

Sorted == HeldInOrder /\ QueueAfterHeld /\ QueueSorted

OrderInv == IssuedInv /\ (~overtook => Sorted)

LEMMA OrderInvInitial == Init => OrderInv
BY DEF Init, OrderInv, IssuedInv, Sorted, HeldInOrder, QueueAfterHeld, QueueSorted, InFlight, None

(* What overtook an older message did so for good.                         *)
LEMMA OvertookStays ==
    ASSUME [Next]_vars, ~overtook'
    PROVE  ~overtook
BY DEF Next, HandleCommand, ShadowService, Disconnect, DisconnectBeforePuback,
       LoseConnection, OnConnect, ApplyDesired, ReportLinkUp, ReportLinkDown,
       PublishReported, PeekNothing, Peek, WriteOk, WriteFail, Ack, Restart, vars, faults

(* A message that overtakes none is as good as the first one: those before *)
(* it carry the same command.                                              *)
LEMMA DeliveredInOrder ==
    ASSUME TypeOK, ApplyDesired, ~overtook'
    PROVE  /\ 1 \in 1 .. Len(down) /\ pending' = down[1]
           /\ Len(down') = Len(down) - 1
           /\ \A j \in 1 .. Len(down) - 1 : down'[j] = down[j + 1]
           /\ UNCHANGED <<desired, connected, pc, peeked, observed, drops, restarts>>
<1>1. down \in Seq(Cmds) /\ Len(down) \in Nat
  BY LenProperties DEF TypeOK, CloudTypeOK
<1>2. PICK i \in 1 .. Len(down) :
         /\ pending' = down[i]
         /\ down' = RemoveAt(down, i)
         /\ overtook' = (overtook \/ Overtakes(i))
         /\ UNCHANGED <<desired, connected, pc, peeked, observed, drops, restarts>>
  BY DEF ApplyDesired
<1>3. \A j \in 1 .. i - 1 : down[j] = down[i]
  BY <1>2, Zenon DEF Overtakes
<1>4. 1 \in 1 .. Len(down) /\ down[1] = down[i]
  BY <1>1, <1>3
<1>5. /\ Len(down') = Len(down) - 1
      /\ \A j \in 1 .. Len(down) - 1 : down'[j] = IF j < i THEN down[j] ELSE down[j + 1]
  BY <1>1, <1>2, RemoveAtProperties
<1>6. ASSUME NEW j \in 1 .. Len(down) - 1
      PROVE  down'[j] = down[j + 1]
  <2>1. CASE j < i
    <3>1. j \in 1 .. i - 1 /\ (j + 1 \in 1 .. i - 1 \/ j + 1 = i)
      BY <1>1, <2>1
    <3> QED
      BY <1>3, <1>5, <2>1, <3>1
  <2>2. CASE ~(j < i)
    BY <1>5, <2>2
  <2> QED
    BY <2>1, <2>2
<1> QED
  BY <1>2, <1>4, <1>5, <1>6

LEMMA IssuedInvInductive == TypeOK /\ AckInv /\ IssuedInv /\ [Next]_vars => IssuedInv'
<1> USE BoundsAssumption
<1> SUFFICES ASSUME TypeOK, AckInv, IssuedInv, [Next]_vars PROVE IssuedInv'
  OBVIOUS
<1>0. /\ desired \in Nat /\ pending \in Nat /\ issued \in Nat /\ lastWritten \in Nat
      /\ down \in Seq(Cmds) /\ Len(down) \in Nat
      /\ \A i \in 1 .. Len(down) : down[i] \in Nat
      /\ InFlight => peeked.cmd \in Nat
  <2>1. down \in Seq(Cmds)
    BY DEF TypeOK, CloudTypeOK
  <2>2. \A i \in 1 .. Len(down) : down[i] \in Nat
    BY <2>1, ElementOfSeq DEF Cmds
  <2>3. Len(down) \in Nat
    BY <2>1, LenProperties
  <2>4. desired \in Nat /\ pending \in Nat
    BY DEF TypeOK, CloudTypeOK, AgentTypeOK, Cmds, None
  <2>5. issued \in Nat /\ lastWritten \in Nat /\ (InFlight => peeked.cmd \in Nat)
    BY DEF TypeOK, ThreadTypeOK, ObservedTypeOK, Cmds, None
  <2> QED
    BY <2>1, <2>2, <2>3, <2>4, <2>5
<1>1. CASE HandleCommand
  <2>1. UNCHANGED <<pending, pc, peeked, lastWritten>>
    BY <1>1 DEF HandleCommand, shadow, thread
  <2>2. issued' = issued + 1 /\ desired' = issued + 1 /\ issued + 1 \in Cmds
    BY <1>0, <1>1 DEF HandleCommand, Cmds
  <2>3. down' = down \/ down' = Append(down, issued + 1)
    BY <1>1 DEF HandleCommand
  <2>4. \A i \in 1 .. Len(down') : down'[i] <= issued + 1
    BY <1>0, <2>2, <2>3, AppendProperties DEF IssuedInv
  <2> QED
    BY <1>0, <2>1, <2>2, <2>4 DEF IssuedInv, InFlight
<1>2. CASE ShadowService
  <2>1. UNCHANGED <<pending, pc, peeked, issued, lastWritten>>
    BY <1>2 DEF ShadowService, shadow, thread, observed
  <2>2. desired' \in {None, issued} /\ desired' \in Cmds \cup {None}
    BY <1>2 DEF ShadowService, ShadowTakes, IssuedInv, TypeOK, CloudTypeOK
  <2>3. down' = down \/ (desired' \in Cmds /\ down' = Append(down, desired'))
    BY <1>2, <2>2 DEF ShadowService, ShadowTakes, Push
  <2>4. \A i \in 1 .. Len(down') : down'[i] <= issued
    BY <1>0, <2>2, <2>3, AppendProperties DEF IssuedInv, None
  <2> QED
    BY <1>0, <2>1, <2>2, <2>4 DEF IssuedInv, InFlight
<1>3. CASE ApplyDesired
  <2>1. PICK i \in 1 .. Len(down) :
           /\ pending' = down[i] /\ down' = RemoveAt(down, i)
           /\ UNCHANGED <<desired, pc, peeked, issued, lastWritten>>
    BY <1>3 DEF ApplyDesired, observed
  <2>2. /\ Len(down') = Len(down) - 1
        /\ \A j \in 1 .. Len(down) - 1 : down'[j] \in {down[j], down[j + 1]}
    BY <1>0, <2>1, RemoveAtProperties
  <2>3. \A j \in 1 .. Len(down) - 1 : down'[j] <= issued
    <3> SUFFICES ASSUME NEW j \in 1 .. Len(down) - 1 PROVE down'[j] <= issued
      OBVIOUS
    <3>1. j \in 1 .. Len(down) /\ j + 1 \in 1 .. Len(down)
      BY <1>0
    <3>2. down[j] <= issued /\ down[j + 1] <= issued
      BY <3>1 DEF IssuedInv
    <3> QED
      BY <2>2, <3>2
  <2> QED
    BY <1>0, <2>1, <2>2, <2>3 DEF IssuedInv, InFlight
<1>4. CASE Peek
  BY <1>4, <1>0 DEF Peek, IssuedInv, InFlight, cloud, shadow, observed
<1>5. CASE WriteOk \/ WriteFail
  <2>1. /\ UNCHANGED <<desired, down, pending, peeked, issued>>
        /\ pc = "write" /\ lastWritten' \in {lastWritten, peeked.cmd}
    BY <1>5 DEF WriteOk, WriteFail, Took, cloud, shadow, observed
  <2> QED
    BY <1>0, <2>1 DEF IssuedInv, InFlight
<1>6. CASE ReportLinkUp \/ ReportLinkDown \/ PeekNothing \/ Ack \/ Restart
  <2>1. /\ UNCHANGED <<desired, issued, lastWritten>> /\ ~InFlight'
        /\ down' \in {down, <<>>} /\ pending' \in {pending, None}
    BY <1>6 DEF ReportLinkUp, ReportLinkDown, PublishReported, PeekNothing, Ack, Restart,
                InFlight, cloud, shadow, observed
  <2> QED
    BY <1>0, <2>1 DEF IssuedInv, None
<1>7. CASE Disconnect \/ DisconnectBeforePuback \/ OnConnect \/ UNCHANGED vars
  <2>1. /\ UNCHANGED <<pending, pc, peeked, issued, lastWritten>>
        /\ desired' \in {desired, None} /\ down' \in {down, <<>>}
    BY <1>7 DEF Disconnect, DisconnectBeforePuback, LoseConnection, OnConnect, vars,
                cloud, shadow, thread, observed
  <2> QED
    BY <1>0, <2>1 DEF IssuedInv, InFlight, None
<1> QED
  BY <1>1, <1>2, <1>3, <1>4, <1>5, <1>6, <1>7 DEF Next

LEMMA OrderInvInductive == TypeOK /\ AckInv /\ OrderInv /\ [Next]_vars => OrderInv'
<1> USE BoundsAssumption
<1> SUFFICES ASSUME TypeOK, AckInv, IssuedInv, Sorted, [Next]_vars, ~overtook'
             PROVE  Sorted'
  BY IssuedInvInductive, OvertookStays DEF OrderInv
<1>0. /\ desired \in Nat /\ pending \in Nat /\ issued \in Nat /\ lastWritten \in Nat
      /\ down \in Seq(Cmds) /\ Len(down) \in Nat
      /\ \A i \in 1 .. Len(down) : down[i] \in Nat
      /\ InFlight => peeked.cmd \in Nat
  <2>1. down \in Seq(Cmds)
    BY DEF TypeOK, CloudTypeOK
  <2>2. \A i \in 1 .. Len(down) : down[i] \in Nat
    BY <2>1, ElementOfSeq DEF Cmds
  <2>3. Len(down) \in Nat
    BY <2>1, LenProperties
  <2>4. desired \in Nat /\ pending \in Nat
    BY DEF TypeOK, CloudTypeOK, AgentTypeOK, Cmds, None
  <2>5. issued \in Nat /\ lastWritten \in Nat /\ (InFlight => peeked.cmd \in Nat)
    BY DEF TypeOK, ThreadTypeOK, ObservedTypeOK, Cmds, None
  <2> QED
    BY <2>1, <2>2, <2>3, <2>4, <2>5
<1>1. CASE HandleCommand
  <2>1. UNCHANGED <<pending, pc, peeked, lastWritten>>
    BY <1>1 DEF HandleCommand, shadow, thread
  <2>2. issued' = issued + 1 /\ desired' = issued + 1
    BY <1>1 DEF HandleCommand
  <2>3. CASE down' = down
    BY <1>0, <2>1, <2>2, <2>3 DEF IssuedInv, Sorted, HeldInOrder, QueueAfterHeld, QueueSorted, InFlight, None
  <2>4. CASE down' = Append(down, issued + 1)
    <3>1. issued + 1 \in Cmds
      BY <1>1, <1>0 DEF HandleCommand, Cmds
    <3>2. /\ Len(down') = Len(down) + 1 /\ down'[Len(down) + 1] = issued + 1
          /\ \A i \in 1 .. Len(down) : down'[i] = down[i]
      BY <1>0, <2>4, <3>1, AppendProperties
    <3>3. HeldInOrder'
      BY <1>0, <2>1, <2>2 DEF IssuedInv, Sorted, HeldInOrder, InFlight
    <3>4. QueueAfterHeld'
      BY <1>0, <2>1, <2>2, <3>2 DEF IssuedInv, Sorted, HeldInOrder, QueueAfterHeld
    <3>5. QueueSorted'
      <4> SUFFICES ASSUME NEW i \in 1 .. Len(down'), NEW j \in 1 .. Len(down'), i <= j
                   PROVE  down'[i] <= down'[j]
        BY DEF QueueSorted
      <4>1. CASE j = Len(down) + 1
        <5>1. \A k \in 1 .. Len(down) : down'[k] <= issued
          BY <3>2 DEF IssuedInv, Sorted, QueueAfterHeld
        <5>2. i \in 1 .. Len(down) \/ i = j
          BY <1>0, <3>2, <4>1
        <5> QED
          BY <1>0, <3>2, <4>1, <5>1, <5>2
      <4>2. CASE j \in 1 .. Len(down)
        <5>1. i \in 1 .. Len(down) /\ down[i] <= down[j]
          BY <1>0, <3>2, <4>2 DEF IssuedInv, Sorted, QueueSorted
        <5> QED
          BY <3>2, <4>2, <5>1
      <4> QED
        BY <1>0, <3>2, <4>1, <4>2
    <3> QED
      BY <3>3, <3>4, <3>5 DEF Sorted
  <2> QED
    BY <1>1, <2>3, <2>4 DEF HandleCommand
<1>2. CASE ShadowService
  <2>1. UNCHANGED <<pending, pc, peeked, issued, lastWritten>>
    BY <1>2 DEF ShadowService, shadow, thread, observed
  <2>2. desired' \in {None, issued} /\ desired' \in Cmds \cup {None}
    BY <1>2 DEF ShadowService, ShadowTakes, IssuedInv,
                 TypeOK, CloudTypeOK
  <2>3. CASE down' = down
    BY <1>0, <2>1, <2>2, <2>3 DEF IssuedInv, Sorted, HeldInOrder, QueueAfterHeld, QueueSorted, InFlight, None
  <2>4. CASE desired' # None /\ down' = Append(down, desired')
    <3>1. desired' = issued /\ desired' \in Cmds
      BY <2>2, <2>4
    <3>2. /\ Len(down') = Len(down) + 1 /\ down'[Len(down) + 1] = issued
          /\ \A i \in 1 .. Len(down) : down'[i] = down[i]
      BY <1>0, <2>4, <3>1, AppendProperties
    <3>3. HeldInOrder'
      BY <2>1, <2>2 DEF IssuedInv, Sorted, HeldInOrder, InFlight
    <3>4. QueueAfterHeld'
      BY <1>0, <2>1, <3>2 DEF IssuedInv, Sorted, HeldInOrder, QueueAfterHeld
    <3>5. QueueSorted'
      BY <1>0, <3>2 DEF IssuedInv, Sorted, QueueAfterHeld, QueueSorted
    <3> QED
      BY <3>3, <3>4, <3>5 DEF Sorted
  <2> QED
    BY <1>2, <2>3, <2>4 DEF ShadowService, ShadowTakes, Push
<1>3. CASE Disconnect \/ DisconnectBeforePuback
  <2>1. /\ UNCHANGED <<pending, pc, peeked, issued, lastWritten>>
        /\ desired' \in {desired, None} /\ down' = <<>>
    BY <1>3 DEF Disconnect, DisconnectBeforePuback, LoseConnection, shadow, thread, observed
  <2> QED
    BY <1>0, <2>1 DEF IssuedInv, Sorted, HeldInOrder, QueueAfterHeld, QueueSorted, InFlight, None
<1>4. CASE ApplyDesired
  <2>1. /\ 1 \in 1 .. Len(down) /\ pending' = down[1]
        /\ UNCHANGED <<desired, pc, peeked, issued, lastWritten>>
    BY <1>4, DeliveredInOrder DEF observed
  <2>2. /\ Len(down') = Len(down) - 1
        /\ \A j \in 1 .. Len(down) - 1 : down'[j] = down[j + 1]
    BY <1>4, DeliveredInOrder
  <2>3. \A j \in 1 .. Len(down) - 1 : j + 1 \in 1 .. Len(down) /\ 1 <= j + 1
    BY <1>0
  <2>4. HeldInOrder'
    BY <1>0, <2>1 DEF IssuedInv, Sorted, HeldInOrder, QueueAfterHeld, InFlight
  <2>5. QueueAfterHeld'
    BY <1>0, <2>1, <2>2, <2>3 DEF IssuedInv, Sorted, QueueAfterHeld, QueueSorted
  <2>6. QueueSorted'
    <3> SUFFICES ASSUME NEW i \in 1 .. Len(down) - 1, NEW j \in 1 .. Len(down) - 1, i <= j
                 PROVE  down'[i] <= down'[j]
      BY <2>2 DEF QueueSorted
    <3>1. i + 1 \in 1 .. Len(down) /\ j + 1 \in 1 .. Len(down) /\ i + 1 <= j + 1
      BY <1>0
    <3>2. down[i + 1] <= down[j + 1]
      BY <3>1 DEF IssuedInv, Sorted, QueueSorted
    <3> QED
      BY <2>2, <3>2
  <2> QED
    BY <2>4, <2>5, <2>6 DEF Sorted
<1>5. CASE Peek
  BY <1>5, <1>0 DEF Peek, IssuedInv, Sorted, HeldInOrder, QueueAfterHeld, QueueSorted,
                    InFlight, cloud, shadow, observed, None
<1>6. CASE WriteOk \/ WriteFail
  <2>1. /\ UNCHANGED <<desired, down, pending, peeked, issued>>
        /\ pc = "write" /\ lastWritten' \in {lastWritten, peeked.cmd}
    BY <1>6 DEF WriteOk, WriteFail, Took, cloud, shadow, observed
  <2>2. InFlight /\ pending # None
    BY <2>1 DEF InFlight, AckInv
  <2> QED
    BY <1>0, <2>1, <2>2 DEF IssuedInv, Sorted, HeldInOrder, QueueAfterHeld, QueueSorted, InFlight, None
<1>7. CASE ReportLinkUp \/ ReportLinkDown \/ PeekNothing \/ Ack \/ Restart
  <2>1. /\ UNCHANGED <<desired, issued, lastWritten>> /\ ~InFlight'
        /\ down' \in {down, <<>>} /\ pending' \in {pending, None}
    BY <1>7 DEF ReportLinkUp, ReportLinkDown, PublishReported, PeekNothing, Ack, Restart,
                InFlight, cloud, shadow, observed
  <2> QED
    BY <1>0, <2>1 DEF IssuedInv, Sorted, HeldInOrder, QueueAfterHeld, QueueSorted, None
<1>8. CASE OnConnect \/ UNCHANGED vars
  <2>1. UNCHANGED <<desired, down, pending, pc, peeked, issued, lastWritten>>
    BY <1>8 DEF OnConnect, vars, cloud, shadow, thread, observed
  <2> QED
    BY <2>1 DEF IssuedInv, Sorted, HeldInOrder, QueueAfterHeld, QueueSorted, InFlight
<1> QED
  BY <1>1, <1>2, <1>3, <1>4, <1>5, <1>6, <1>7, <1>8 DEF Next

(* The controller is never told a command that was not issued, nor an     *)
(* older one after a newer one until a message overtook an older one on    *)
(* its way (shadow.c:365-382), whatever the losses and restarts: the       *)
(* pipeline implements CommandOrder.                                       *)
THEOREM OrderImplemented == Spec => InOrder
<1>1. Init => Order!Init
  BY DEF Init, Order!Init, None
<1>2. TypeOK /\ AckInv /\ OrderInv /\ [Next]_vars => [Order!Next]_(Order!vars)
  <2> SUFFICES ASSUME TypeOK, AckInv, OrderInv, [Next]_vars
               PROVE  Order!Next \/ UNCHANGED <<issued, lastWritten, ~overtook>>
    BY DEF Order!vars
  <2>1. CASE HandleCommand
    BY <2>1 DEF HandleCommand, faults, Order!Next, Order!Issue
  <2>2. CASE (WriteOk \/ WriteFail) /\ lastWritten' # lastWritten
    <3>1. /\ pc = "write" /\ lastWritten' = peeked.cmd
          /\ issued' = issued /\ overtook' = overtook
      BY <2>2 DEF WriteOk, WriteFail, Took, observed, faults
    <3>2. peeked.cmd \in 1 .. MaxCmds /\ issued \in Nat /\ lastWritten \in Nat
      BY <3>1, BoundsAssumption
      DEF TypeOK, ThreadTypeOK, ObservedTypeOK, InFlight, Cmds, None
    <3>3. /\ peeked.cmd <= issued
          /\ ~overtook => lastWritten <= peeked.cmd
      BY <3>1 DEF OrderInv, IssuedInv, Sorted, HeldInOrder, InFlight
    <3>4. peeked.cmd \in 1 .. issued
      BY <3>2, <3>3, BoundsAssumption
    <3> QED
      BY <3>1, <3>3, <3>4 DEF Order!Next, Order!Tell
  <2>3. CASE ApplyDesired
    <3>1. UNCHANGED <<issued, lastWritten>>
      BY <2>3 DEF ApplyDesired, observed
    <3>3. CASE overtook'
      BY <3>1, <3>3, Zenon DEF Order!Next, Order!Disorder
    <3>4. CASE ~overtook'
      <4>1. ~overtook
        BY <3>4, OvertookStays
      <4> QED
        BY <3>1, <3>4, <4>1
    <3> QED
      BY <3>3, <3>4
  <2>4. CASE ~HandleCommand /\ ~ApplyDesired /\ lastWritten' = lastWritten
    BY <2>4 DEF Next, ShadowService, Disconnect, DisconnectBeforePuback, LoseConnection,
                OnConnect, ReportLinkUp, ReportLinkDown, PublishReported, PeekNothing,
                Peek, WriteOk, WriteFail, Took, Ack, Restart, observed, faults, vars
  <2>5. CASE ~HandleCommand /\ ~ApplyDesired /\ ~WriteOk /\ ~WriteFail
    BY <2>5 DEF Next, ShadowService, Disconnect, DisconnectBeforePuback, LoseConnection,
                OnConnect, ReportLinkUp, ReportLinkDown, PublishReported, PeekNothing,
                Peek, Ack, Restart, observed, faults, vars
  <2> QED
    BY <2>1, <2>2, <2>3, <2>4, <2>5
<1> QED
  BY <1>1, <1>2, TypeCorrect, AckInvInitial, AckInvInductive, OrderInvInitial,
     OrderInvInductive, PTL DEF Spec, InOrder, Order!Spec

-----------------------------------------------------------------------------
(* As long as nothing failed, a command that is neither written, accepted  *)
(* nor on the way down was set before the first CONNACK: then the agent    *)
(* has not handled any command yet, so no null of an older one can be on   *)
(* its way, and the first get or report fetches it.                        *)
Unseen == issued \notin written /\ pending # issued /\ ~Contains(down, issued)

NoNulls == \A i \in 1 .. Len(up) : up[i] # "null"

Untouched ==
    /\ desired = issued /\ pending = None /\ down = <<>>
    /\ clear = FALSE /\ NoNulls /\ ~InFlight

KeptInv ==
    drops = 0 /\ restarts = 0 /\ ~overtook /\ (connected = FALSE \/ Unseen) => Untouched

LEMMA KeptInvInitial == Init => KeptInv
BY DEF Init, KeptInv, Untouched, NoNulls, InFlight, None

LEMMA KeptInvInductive ==
    TypeOK /\ AckInv /\ OrderInv /\ KeptInv /\ [Next]_vars => KeptInv'
<1> USE BoundsAssumption
<1> SUFFICES ASSUME TypeOK, AckInv, OrderInv, KeptInv, [Next]_vars,
                    drops' = 0, restarts' = 0, ~overtook',
                    connected' = FALSE \/ Unseen'
             PROVE  Untouched'
  BY DEF KeptInv
<1> ~overtook
  BY OvertookStays
<1>0. /\ issued \in Nat /\ desired \in Cmds \cup {None} /\ connected \in BOOLEAN
      /\ down \in Seq(Cmds) /\ Len(down) \in Nat /\ up \in Seq({"report", "null", "get"})
      /\ drops \in Nat /\ restarts \in Nat
  <2>1. down \in Seq(Cmds) /\ up \in Seq({"report", "null", "get"})
    BY DEF TypeOK, CloudTypeOK
  <2>2. connected \in BOOLEAN /\ desired \in Cmds \cup {None}
    BY DEF TypeOK, CloudTypeOK
  <2>3. issued \in Nat /\ drops \in Nat /\ restarts \in Nat
    BY DEF TypeOK, ObservedTypeOK
  <2> QED
    BY <2>1, <2>2, <2>3, LenProperties
<1>1. CASE HandleCommand
  <2>1. /\ UNCHANGED <<up, connected, pending, clear, pc, drops, restarts>>
        /\ issued' = issued + 1 /\ desired' = issued + 1 /\ issued + 1 \in Cmds
        /\ down' = IF connected THEN Append(down, issued + 1) ELSE down
    BY <1>0, <1>1 DEF HandleCommand, shadow, thread, faults, Cmds
  <2>2. CASE connected
    <3>1. down' = Append(down, issued + 1)
      BY <2>1, <2>2
    <3>2. Len(down') \in 1 .. Len(down') /\ down'[Len(down')] = issued'
      BY <1>0, <2>1, <3>1, AppendProperties
    <3> QED
      BY <2>1, <2>2, <3>2 DEF Unseen, Contains
  <2>3. CASE ~connected
    <3>1. Untouched
      BY <1>0, <2>1, <2>3 DEF KeptInv
    <3> QED
      BY <2>1, <2>3, <3>1 DEF Untouched, NoNulls, InFlight
  <2> QED
    BY <2>2, <2>3
<1>2. CASE ShadowService
  <2>1. /\ connected /\ up # <<>> /\ down' = Push(down, desired')
        /\ desired' = IF Head(up) = "null" THEN None ELSE desired
        /\ UNCHANGED <<connected, pending, issued, written, drops, restarts>>
    BY <1>2 DEF ShadowService, ShadowTakes, shadow, thread, observed, faults
  <2>2. ~Contains(down', issued) /\ issued \notin written /\ pending # issued
    BY <2>1 DEF Unseen
  <2>3. desired' \in Cmds \cup {None}
    BY <1>0, <2>1
  <2>4. desired' # issued \/ desired' = None
    <3> SUFFICES ASSUME desired' = issued, desired' # None PROVE FALSE
      OBVIOUS
    <3>1. down' = Append(down, issued) /\ issued \in Cmds
      BY <2>1, <2>3 DEF Push
    <3>2. Len(down') \in 1 .. Len(down') /\ down'[Len(down')] = issued
      BY <1>0, <3>1, AppendProperties
    <3> QED
      BY <2>2, <3>2 DEF Contains
  <2>5. ~Contains(down, issued)
    <3> SUFFICES ASSUME NEW i \in 1 .. Len(down), down[i] = issued PROVE FALSE
      BY DEF Contains
    <3>1. CASE down' = down
      BY <2>2, <3>1 DEF Contains
    <3>2. CASE desired' \in Cmds /\ down' = Append(down, desired')
      <4>1. i \in 1 .. Len(down') /\ down'[i] = issued
        BY <1>0, <3>2, AppendProperties
      <4> QED
        BY <2>2, <4>1 DEF Contains
    <3> QED
      BY <2>1, <2>3, <3>1, <3>2 DEF Push
  <2>6. Untouched
    BY <2>1, <2>2, <2>5 DEF KeptInv, Unseen
  <2>7. desired' = issued
    <3>1. Head(up) = up[1] /\ 1 \in 1 .. Len(up)
      BY <1>0, <2>1, HeadTailProperties, LenProperties, EmptySeq
    <3> QED
      BY <2>1, <2>6, <3>1 DEF Untouched, NoNulls
  <2> QED
    BY <2>2, <2>4, <2>6, <2>7 DEF Untouched
<1>3. CASE Disconnect \/ DisconnectBeforePuback
  BY <1>0, <1>3 DEF Disconnect, DisconnectBeforePuback, LoseConnection
<1>4. CASE OnConnect
  <2>1. /\ ~connected /\ up' \in {Append(up, "get"), Cons("get", up)}
        /\ UNCHANGED <<desired, down, pending, clear, pc, issued, drops, restarts>>
    BY <1>4 DEF OnConnect, shadow, thread, observed, faults
  <2>2. Untouched
    BY <1>0, <2>1 DEF KeptInv
  <2>3. NoNulls'
    <3>1. CASE up' = Append(up, "get")
      BY <1>0, <2>2, <3>1, AppendProperties DEF Untouched, NoNulls
    <3>2. CASE up' = Cons("get", up)
      <4>1. up' = <<"get">> \o up
        BY <3>2 DEF Cons
      <4>2. /\ Len(up') = 1 + Len(up) /\ up'[1] = "get"
            /\ \A j \in 1 .. Len(up') : j > 1 => up'[j] = up[j - 1]
        BY <1>0, <4>1, ConcatProperties
      <4>3. \A j \in 1 .. Len(up') : j > 1 => j - 1 \in 1 .. Len(up)
        BY <1>0, <4>2, LenProperties
      <4> QED
        BY <1>0, <2>2, <4>2, <4>3, LenProperties DEF Untouched, NoNulls
    <3> QED
      BY <2>1, <3>1, <3>2
  <2> QED
    BY <2>1, <2>2, <2>3 DEF Untouched, InFlight
<1>5. CASE ApplyDesired
  <2>1. /\ 1 \in 1 .. Len(down) /\ pending' = down[1]
        /\ UNCHANGED <<connected, issued, written, drops, restarts>>
    BY <1>5, DeliveredInOrder DEF observed
  <2>2. connected /\ ~Unseen
    BY <1>0, <2>1, LenProperties DEF KeptInv, Untouched
  <2>3. issued \notin written /\ down[1] # issued /\ ~Contains(down', issued)
    BY <1>0, <2>1, <2>2 DEF Unseen
  <2>4. CASE pending = issued
    <3>1. pending <= down[1] /\ down[1] <= issued
      BY <2>1 DEF OrderInv, IssuedInv, Sorted, QueueAfterHeld
    <3>2. down[1] \in Nat
      BY <1>0, <2>1, ElementOfSeq DEF Cmds
    <3> QED
      BY <1>0, <2>3, <2>4, <3>1, <3>2
  <2>5. CASE Contains(down, issued)
    <3>1. PICK k \in 1 .. Len(down) : down[k] = issued
      BY <2>5 DEF Contains
    <3>2. k # 1 /\ k - 1 \in 1 .. Len(down) - 1
      BY <1>0, <2>3, <3>1
    <3>3. down'[k - 1] = down[(k - 1) + 1] /\ Len(down') = Len(down) - 1
      BY <1>5, <3>2, DeliveredInOrder
    <3>4. (k - 1) + 1 = k
      BY <3>1
    <3> QED
      BY <2>3, <3>1, <3>2, <3>3, <3>4 DEF Contains
  <2> QED
    BY <2>2, <2>3, <2>4, <2>5 DEF Unseen
<1>6. CASE ReportLinkUp \/ ReportLinkDown
  <2>1. /\ PublishReported /\ pc' \in {"peek", "report"}
        /\ UNCHANGED <<desired, down, connected, pending, issued, written, drops, restarts>>
    BY <1>6 DEF ReportLinkUp, ReportLinkDown, PublishReported, observed, faults
  <2>2. Untouched
    BY <2>1 DEF KeptInv, Unseen
  <2>3. up' \in {up, Append(up, "report")}
    BY <2>1, <2>2 DEF PublishReported, Untouched
  <2>4. NoNulls'
    BY <1>0, <2>2, <2>3, AppendProperties DEF Untouched, NoNulls
  <2> QED
    BY <2>1, <2>2, <2>4 DEF PublishReported, Untouched, InFlight
<1>7. CASE PeekNothing \/ Peek
  <2>1. /\ UNCHANGED <<cloud, shadow, observed, faults>>
        /\ Peek => pending # None
        /\ PeekNothing => pc' = "report"
    BY <1>7 DEF PeekNothing, Peek
  <2>2. Untouched
    BY <2>1 DEF KeptInv, Unseen, cloud, shadow, observed, faults
  <2> QED
    BY <1>7, <2>1, <2>2 DEF Untouched, NoNulls, InFlight, cloud, shadow, observed
<1>8. CASE WriteOk \/ WriteFail \/ Ack
  <2>1. InFlight /\ UNCHANGED <<down, connected, issued, drops, restarts>>
    BY <1>8 DEF WriteOk, WriteFail, Ack, InFlight, cloud, faults, observed, Took
  <2>2. ~Unseen /\ connected
    BY <1>0, <2>1 DEF KeptInv, Untouched
  <2>3. /\ written \subseteq written'
        /\ pending' = pending \/ pending \in written
    BY <1>8, AckMatches DEF WriteOk, WriteFail, Ack, Took, shadow, observed
  <2> QED
    BY <2>1, <2>2, <2>3 DEF Unseen
<1>9. CASE Restart
  BY <1>0, <1>9 DEF Restart
<1>10. CASE UNCHANGED vars
  BY <1>10 DEF vars, cloud, shadow, thread, observed, faults, KeptInv, Untouched, NoNulls,
               Unseen, InFlight
<1> QED
  BY <1>1, <1>2, <1>3, <1>4, <1>5, <1>6, <1>7, <1>8, <1>9, <1>10 DEF Next

(* While nothing fails and no message overtakes an older one (the agent    *)
(* ignores the shadow version, shadow.c:365-382) the latest command is     *)
(* never lost, although nulls for older ones may wipe it from the cloud    *)
(* (shadow.c:604-632): it is written, accepted, on its way or desired.     *)
THEOREM Kept == Spec => []KeptWithoutFaults
<1>1. KeptInv => KeptWithoutFaults
  BY DEF KeptInv, KeptWithoutFaults, Unseen, Untouched
<1> QED
  BY <1>1, TypeCorrect, AckInvInitial, AckInvInductive, OrderInvInitial,
     OrderInvInductive, KeptInvInitial, KeptInvInductive, PTL DEF Spec
=============================================================================
