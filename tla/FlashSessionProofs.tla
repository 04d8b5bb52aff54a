------------------------- MODULE FlashSessionProofs -------------------------
(***************************************************************************)
(* Theorems about FlashSession, for images of any length, any budget of    *)
(* attempts and any number of disturbances and resets.                     *)
(***************************************************************************)
EXTENDS FlashSession, SequenceTheorems, TLAPS

-----------------------------------------------------------------------------
(* The bus.                                                                *)

(* A flush leaves replies that were under way, and no others.              *)
LEMMA LateFrames ==
    ASSUME wire \in Seq(Replies), NEW late \in Late
    PROVE  /\ late \in Seq(Replies) /\ Len(late) \in Nat
           /\ {late[i] : i \in DOMAIN late} \subseteq Frames
<1>1. PICK k \in 1 .. Len(wire) + 1 : late = SubSeq(wire, k, Len(wire))
  BY DEF Late
<1>2. /\ late \in Seq(Replies) /\ Len(late) \in Nat
      /\ \A i \in 1 .. Len(late) : k + i - 1 \in 1 .. Len(wire) /\ late[i] = wire[k + i - 1]
  BY <1>1, SubSeqProperties, LenProperties
<1>3. DOMAIN late = 1 .. Len(late) /\ DOMAIN wire = 1 .. Len(wire)
  BY <1>2, LenProperties
<1>4. ASSUME NEW i \in DOMAIN late
      PROVE  late[i] \in Frames
  BY <1>2, <1>3 DEF Frames
<1> QED
  BY <1>2, <1>4

(* A reply is the only new frame; unless the bus is disturbed once more    *)
(* than it had to be, it is the next one the agent reads.                  *)
LEMMA ReplyFrames ==
    ASSUME wire \in Seq(Replies), noise \in Nat,
           NEW r \in Replies, NEW n \in Nat, Reply(r, n)
    PROVE  /\ wire' \in Seq(Replies) /\ Frames' \subseteq Frames \cup {r}
           /\ noise' \in 0 .. MaxNoise /\ noise' >= noise + n
           /\ noise' >= noise + n + 1 \/ (wire' # <<>> /\ Head(wire') = r)
<1>1. PICK late \in Late :
        \/ wire' = Append(late, r) /\ Disturb(Len(late) + n)
        \/ wire' = late /\ Disturb(Len(late) + n + 1)
  BY DEF Reply
<1>2. /\ late \in Seq(Replies) /\ Len(late) \in Nat
      /\ {late[i] : i \in DOMAIN late} \subseteq Frames
  BY LateFrames
<1>3. CASE wire' = Append(late, r) /\ Disturb(Len(late) + n)
  <2>1. /\ wire' \in Seq(Replies) /\ Len(wire') = Len(late) + 1
        /\ \A i \in 1 .. Len(late) : wire'[i] = late[i]
        /\ wire'[Len(late) + 1] = r
    BY <1>2, <1>3, AppendProperties
  <2>2. Frames' \subseteq Frames \cup {r}
    <3> SUFFICES ASSUME NEW i \in DOMAIN wire'
                 PROVE  wire'[i] \in Frames \cup {r}
      BY DEF Frames
    <3>1. i \in 1 .. Len(late) + 1 /\ DOMAIN late = 1 .. Len(late)
      BY <1>2, <2>1, LenProperties
    <3> QED
      BY <1>2, <2>1, <3>1
  <2>3. noise' = noise + Len(late) + n /\ noise' <= MaxNoise
    BY <1>2, <1>3 DEF Disturb
  <2>4. Len(late) = 0 => wire' # <<>> /\ Head(wire') = r
    BY <1>2, <2>1
  <2> QED
    BY <1>2, <2>1, <2>2, <2>3, <2>4, BoundsAssumption
<1>4. CASE wire' = late /\ Disturb(Len(late) + n + 1)
  <2>1. noise' = noise + Len(late) + n + 1 /\ noise' <= MaxNoise
    BY <1>2, <1>4 DEF Disturb
  <2>2. Frames' \subseteq Frames
    BY <1>2, <1>4 DEF Frames
  <2> QED
    BY <1>2, <1>4, <2>1, <2>2, BoundsAssumption
<1> QED
  BY <1>1, <1>3, <1>4

(* Nothing is added by a request that is not answered.                     *)
LEMMA NoReplyFrames ==
    ASSUME wire \in Seq(Replies), noise \in Nat, NEW n \in Nat, NoReply(n)
    PROVE  /\ wire' \in Seq(Replies) /\ Frames' \subseteq Frames
           /\ noise' \in 0 .. MaxNoise /\ noise' >= noise + n
<1>1. PICK late \in Late : wire' = late /\ Disturb(Len(late) + n)
  BY DEF NoReply
<1>2. /\ late \in Seq(Replies) /\ Len(late) \in Nat
      /\ {late[i] : i \in DOMAIN late} \subseteq Frames
  BY LateFrames
<1>3. noise' = noise + Len(late) + n /\ noise' <= MaxNoise
  BY <1>1, <1>2 DEF Disturb
<1>4. Frames' \subseteq Frames
  BY <1>1, <1>2 DEF Frames
<1> QED
  BY <1>1, <1>2, <1>3, <1>4, BoundsAssumption

(* What the agent takes for an answer was under way; an exchange that      *)
(* times out with a reply under way was disturbed.                         *)
LEMMA AnswerFrames ==
    ASSUME wire \in Seq(Replies), noise \in 0 .. MaxNoise,
           NEW at, NEW a \in Answers, Answer(at, a)
    PROVE  /\ wire' \in Seq(Replies) /\ Frames' \subseteq Frames
           /\ noise' \in 0 .. MaxNoise /\ noise' >= noise
           /\ wire # <<>> => noise' >= noise + 1 \/ a = Head(wire)
<1>1. wire # <<>> => /\ Tail(wire) \in Seq(Replies) /\ Len(Tail(wire)) = Len(wire) - 1
                     /\ Len(wire) \in Nat \ {0}
                     /\ \A i \in 1 .. Len(wire) - 1 : Tail(wire)[i] = wire[i + 1]
  BY HeadTailProperties, LenProperties
<1>2. wire' = wire \/ (wire # <<>> /\ wire' = Tail(wire))
  BY DEF Answer
<1>3. wire' \in Seq(Replies) /\ Frames' \subseteq Frames
  <2>1. CASE wire' = wire
    BY <2>1 DEF Frames
  <2>2. CASE wire # <<>> /\ wire' = Tail(wire)
    BY <1>1, <2>2 DEF Frames
  <2> QED
    BY <1>2, <2>1, <2>2
<1>4. noise' \in 0 .. MaxNoise /\ noise' >= noise
  BY BoundsAssumption DEF Answer, Disturb
<1>5. wire # <<>> => noise' >= noise + 1 \/ a = Head(wire)
  BY DEF Answer, Disturb
<1> QED
  BY <1>3, <1>4, <1>5

-----------------------------------------------------------------------------
(* What each exchange does to the bus and to the controller.               *)

(* The bus after a step that adds no other replies than those of S.        *)
Carried(S) ==
    /\ wire' \in Seq(Replies) /\ Frames' \subseteq Frames \cup S
    /\ noise' \in 0 .. MaxNoise /\ noise' >= noise

(* Answered(r): r is what the agent reads next, or the step was disturbed. *)
Answered(r) == noise' >= noise + 1 \/ (wire' # <<>> /\ Head(wire') = r)

LEMMA ReplyCarried ==
    ASSUME TypeOK, NEW r \in Replies, NEW n \in Nat, Reply(r, n)
    PROVE  Carried({r}) /\ Answered(r) /\ (n = 1 => noise' >= noise + 1)
<1>1. noise \in Nat /\ wire \in Seq(Replies)
  BY BoundsAssumption DEF TypeOK
<1>2. /\ wire' \in Seq(Replies) /\ Frames' \subseteq Frames \cup {r}
      /\ noise' \in 0 .. MaxNoise /\ noise' >= noise + n
      /\ noise' >= noise + n + 1 \/ (wire' # <<>> /\ Head(wire') = r)
  BY <1>1, ReplyFrames
<1> QED
  BY <1>1, <1>2, BoundsAssumption DEF Carried, Answered

LEMMA NoReplyCarried ==
    ASSUME TypeOK, NEW n \in Nat, NoReply(n), NEW S
    PROVE  Carried(S) /\ (n = 1 => noise' >= noise + 1)
<1>1. noise \in Nat /\ wire \in Seq(Replies)
  BY BoundsAssumption DEF TypeOK
<1>2. /\ wire' \in Seq(Replies) /\ Frames' \subseteq Frames
      /\ noise' \in 0 .. MaxNoise /\ noise' >= noise + n
  BY <1>1, NoReplyFrames
<1> QED
  BY <1>1, <1>2, BoundsAssumption DEF Carried

LEMMA AnswerCarried ==
    ASSUME TypeOK, NEW at, NEW a \in Answers, Answer(at, a)
    PROVE  Carried({}) /\ (wire # <<>> => noise' >= noise + 1 \/ a = Head(wire))
BY AnswerFrames DEF TypeOK, Carried

(* The replies of the controller are replies.                              *)
LEMMA RepliesTyped ==
    ASSUME TypeOK
    PROVE  /\ {Echo, Refusal, Info, Status, Reg2, DataNak, DataAck(off)} \subseteq Replies
           /\ \A sub \in {"erase", "verify", "commit", "abort"} : Ack(sub) \in Replies
           /\ Nak("state") \in Replies /\ Nak("crc") \in Replies
BY DEF TypeOK, Echo, Refusal, Info, Status, Reg2, DataNak, DataAck, Ack, Nak, Replies

LEMMA SendingEnter ==
    ASSUME TypeOK, Send("enter", EnterBootloader)
    PROVE  /\ Carried({Echo, Refusal})
           /\ UNCHANGED <<inactive, content, active>> /\ mode' \in {mode, "idle"}
<1>1. \/ mode' \in {mode, "idle"} /\ (Reply(Echo, 0) \/ Reply(Refusal, 0) \/ NoReply(0))
      \/ mode' = mode /\ NoReply(1)
  BY DEF Send, EnterBootloader, controller
<1>2. UNCHANGED <<inactive, content, active>>
  BY DEF Send, EnterBootloader, controller
<1>3. CASE Reply(Echo, 0) \/ Reply(Refusal, 0)
  <2>1. Carried({Echo}) \/ Carried({Refusal})
    BY <1>3, ReplyCarried, RepliesTyped
  <2> QED
    BY <2>1, <1>1, <1>2 DEF Carried
<1>4. CASE NoReply(0) \/ NoReply(1)
  BY <1>1, <1>2, <1>4, NoReplyCarried
<1> QED
  BY <1>1, <1>3, <1>4

LEMMA SendingInfo ==
    ASSUME TypeOK, Send("info", AnswerInfo)
    PROVE  Carried({Info}) /\ UNCHANGED controller
<1>1. UNCHANGED controller /\ (Reply(Info, 0) \/ NoReply(0) \/ NoReply(1))
  BY DEF Send, AnswerInfo
<1> QED
  BY <1>1, ReplyCarried, NoReplyCarried, RepliesTyped

LEMMA SendingErase ==
    ASSUME TypeOK, Send("erase", Erase)
    PROVE  /\ UNCHANGED <<inactive, active>>
           /\ \/ /\ mode' = "erased" /\ content' = [c \in Chunk |-> "blank"]
                 /\ Carried({Ack("erase")})
              \/ UNCHANGED <<mode, content>> /\ Carried({Nak("state")})
<1>1. /\ UNCHANGED <<inactive, active>>
      /\ \/ /\ mode' = "erased" /\ content' = [c \in Chunk |-> "blank"]
            /\ Reply(Ack("erase"), 0)
         \/ UNCHANGED <<mode, content>> /\ (Reply(Nak("state"), 0) \/ NoReply(1))
  BY DEF Send, Erase, controller
<1> QED
  BY <1>1, ReplyCarried, NoReplyCarried, RepliesTyped

LEMMA SendingData ==
    ASSUME TypeOK, Send("data", WriteChunk)
    PROVE  /\ UNCHANGED <<mode, inactive, active>>
           /\ \/ /\ mode = "erased" /\ Carried({DataAck(off)}) /\ Answered(DataAck(off))
                 /\ \E x \in {img, "bad"} : content' = [content EXCEPT ![off] = x]
              \/ /\ UNCHANGED content /\ Carried({DataNak})
                 /\ mode # "erased" \/ noise' >= noise + 1
<1>1. /\ UNCHANGED <<mode, inactive, active>>
      /\ \/ /\ mode = "erased" /\ (Reply(DataAck(off), 0) \/ Reply(DataAck(off), 1))
            /\ \E x \in {img, "bad"} : content' = [content EXCEPT ![off] = x]
         \/ UNCHANGED content /\ (Reply(DataNak, 1) \/ NoReply(1))
         \/ UNCHANGED content /\ mode # "erased" /\ Reply(DataNak, 0)
  BY DEF Send, WriteChunk, controller
<1> QED
  BY <1>1, ReplyCarried, NoReplyCarried, RepliesTyped

LEMMA SendingVerify ==
    ASSUME TypeOK, Send("verify", Check)
    PROVE  /\ UNCHANGED <<inactive, content, active>>
           /\ \/ /\ mode = "erased" /\ Complete /\ mode' = "verified"
                 /\ Carried({Ack("verify")}) /\ Answered(Ack("verify"))
              \/ /\ mode = "erased" /\ ~Complete /\ mode' = mode
                 /\ Carried({Nak("crc")}) /\ Answered(Nak("crc"))
              \/ /\ mode # "erased" /\ mode' = mode
                 /\ Carried({Nak("state")}) /\ Answered(Nak("state"))
              \/ mode' = mode /\ Carried({}) /\ noise' >= noise + 1
<1>1. /\ UNCHANGED <<inactive, content, active>>
      /\ \/ mode = "erased" /\ Complete /\ mode' = "verified" /\ Reply(Ack("verify"), 0)
         \/ mode = "erased" /\ ~Complete /\ mode' = mode /\ Reply(Nak("crc"), 0)
         \/ mode # "erased" /\ mode' = mode /\ Reply(Nak("state"), 0)
         \/ mode' = mode /\ NoReply(1)
  BY DEF Send, Check, controller
<1> QED
  BY <1>1, ReplyCarried, NoReplyCarried, RepliesTyped

LEMMA SendingStatus ==
    ASSUME TypeOK, Send("status", AnswerStatus)
    PROVE  UNCHANGED controller /\ Carried({Status}) /\ Answered(Status)
<1>1. UNCHANGED controller /\ (Reply(Status, 0) \/ NoReply(1))
  BY DEF Send, AnswerStatus
<1> QED
  BY <1>1, ReplyCarried, NoReplyCarried, RepliesTyped DEF Answered

LEMMA SendingCommit ==
    ASSUME TypeOK, Send("commit", Commit)
    PROVE  /\ UNCHANGED <<inactive, content>>
           /\ \/ /\ mode = "verified" /\ mode' = "app" /\ Carried({Ack("commit")})
                 /\ active' = IF \A c \in Chunk : content[c] = inactive
                              THEN "new" ELSE "broken"
              \/ UNCHANGED <<mode, active>> /\ Carried({Nak("state")})
<1>1. /\ UNCHANGED <<inactive, content>>
      /\ \/ /\ mode = "verified" /\ mode' = "app" /\ Reply(Ack("commit"), 0)
            /\ active' = IF \A c \in Chunk : content[c] = inactive
                         THEN "new" ELSE "broken"
         \/ UNCHANGED <<mode, active>> /\ (Reply(Nak("state"), 0) \/ NoReply(1))
  BY DEF Send, Commit, controller
<1> QED
  BY <1>1, ReplyCarried, NoReplyCarried, RepliesTyped

LEMMA SendingVersion ==
    ASSUME TypeOK, Send("version", AnswerVersion)
    PROVE  UNCHANGED controller /\ Carried({Reg2}) /\ Answered(Reg2)
<1>1. UNCHANGED controller /\ (Reply(Reg2, 0) \/ NoReply(1))
  BY DEF Send, AnswerVersion
<1> QED
  BY <1>1, ReplyCarried, NoReplyCarried, RepliesTyped DEF Answered

LEMMA SendingAbort ==
    ASSUME TypeOK, Send("abort", Discard)
    PROVE  /\ UNCHANGED <<inactive, content, active>> /\ mode' \in {mode, "idle"}
           /\ Carried({Ack("abort")})
<1>1. /\ UNCHANGED <<inactive, content, active>> /\ mode' \in {mode, "idle"}
      /\ Reply(Ack("abort"), 0) \/ NoReply(1)
  BY DEF Send, Discard, controller
<1> QED
  BY <1>1, ReplyCarried, NoReplyCarried, RepliesTyped

-----------------------------------------------------------------------------
(* The type invariant.                                                     *)

(* A reply under way is a reply: INFO names a slot, a DATA ACK a chunk.    *)
LEMMA FrameTyped ==
    ASSUME TypeOK, NEW f \in Frames
    PROVE  /\ f.kind = "info" => f.arg \in Slots
           /\ f.kind = "data" => f.arg \in Chunk
<1>1. f \in Replies
  <2>1. \A i \in DOMAIN wire : wire[i] \in Replies
    BY ElementOfSeq, LenProperties DEF TypeOK
  <2> QED
    BY <2>1 DEF Frames
<1> QED
  BY <1>1 DEF Replies, DataNak

(* The part of TypeOK that a request can change.                           *)
LEMMA SendKeepsType ==
    ASSUME TypeOK, Sends
    PROVE  /\ wire' \in Seq(Replies) /\ noise' \in 0 .. MaxNoise
           /\ mode' \in {"app", "idle", "erased", "verified"} /\ inactive' \in Slots
           /\ content' \in [Chunk -> Slots \cup {"blank", "old", "bad"}]
           /\ active' \in {"old", "new", "broken"}
           /\ waiting' = TRUE
           /\ UNCHANGED <<step, try, heard, off, img, result, resets>>
<1>1. waiting' = TRUE /\ UNCHANGED <<step, try, heard, off, img, result, resets>>
  BY DEF Sends, Send
<1> SUFFICES /\ \E S : Carried(S)
             /\ mode' \in {"app", "idle", "erased", "verified"} /\ inactive' \in Slots
             /\ content' \in [Chunk -> Slots \cup {"blank", "old", "bad"}]
             /\ active' \in {"old", "new", "broken"}
  BY <1>1 DEF Carried
<1> USE DEF TypeOK, controller
<1>2. CASE Send("enter", EnterBootloader)
  BY <1>2, SendingEnter
<1>3. CASE Send("info", AnswerInfo)
  BY <1>3, SendingInfo
<1>4. CASE Send("erase", Erase)
  BY <1>4, SendingErase
<1>5. CASE Send("data", WriteChunk)
  <2>1. img \in Slots
    BY <1>5 DEF Send
  <2> QED
    BY <1>5, <2>1, SendingData
<1>6. CASE Send("verify", Check)
  BY <1>6, SendingVerify
<1>7. CASE Send("status", AnswerStatus)
  BY <1>7, SendingStatus
<1>8. CASE Send("commit", Commit)
  BY <1>8, SendingCommit
<1>9. CASE Send("version", AnswerVersion)
  BY <1>9, SendingVersion
<1>10. CASE Send("abort", Discard)
  BY <1>10, SendingAbort
<1> QED
  BY <1>2, <1>3, <1>4, <1>5, <1>6, <1>7, <1>8, <1>9, <1>10 DEF Sends

(* The session goes on with an answer to the request of its step.          *)
LEMMA AfterSteps ==
    ASSUME Afters
    PROVE  /\ \E a \in Answers : Answer(step, a)
           /\ \/ step = "enter" /\ AfterEnter
              \/ step = "info" /\ AfterInfo
              \/ step = "erase" /\ AfterErase
              \/ step = "data" /\ AfterData
              \/ step = "verify" /\ AfterVerify
              \/ step = "status" /\ AfterStatus
              \/ step = "commit" /\ AfterCommit
              \/ step = "version" /\ AfterVersion
              \/ step = "abort" /\ AfterAbort
<1>1. CASE AfterEnter
  <2>1. PICK a \in Answers : Answer("enter", a)
    BY <1>1 DEF AfterEnter
  <2>2. step = "enter" /\ Answer(step, a)
    BY <2>1 DEF Answer
  <2> QED
    BY <1>1, <2>2
<1>2. CASE AfterInfo
  <2>1. PICK a \in Answers : Answer("info", a)
    BY <1>2 DEF AfterInfo
  <2>2. step = "info" /\ Answer(step, a)
    BY <2>1 DEF Answer
  <2> QED
    BY <1>2, <2>2
<1>3. CASE AfterErase
  <2>1. PICK a \in Answers : Answer("erase", a)
    BY <1>3 DEF AfterErase
  <2>2. step = "erase" /\ Answer(step, a)
    BY <2>1 DEF Answer
  <2> QED
    BY <1>3, <2>2
<1>4. CASE AfterData
  <2>1. PICK a \in Answers : Answer("data", a)
    BY <1>4 DEF AfterData
  <2>2. step = "data" /\ Answer(step, a)
    BY <2>1 DEF Answer
  <2> QED
    BY <1>4, <2>2
<1>5. CASE AfterVerify
  <2>1. PICK a \in Answers : Answer("verify", a)
    BY <1>5 DEF AfterVerify
  <2>2. step = "verify" /\ Answer(step, a)
    BY <2>1 DEF Answer
  <2> QED
    BY <1>5, <2>2
<1>6. CASE AfterStatus
  <2>1. PICK a \in Answers : Answer("status", a)
    BY <1>6 DEF AfterStatus
  <2>2. step = "status" /\ Answer(step, a)
    BY <2>1 DEF Answer
  <2> QED
    BY <1>6, <2>2
<1>7. CASE AfterCommit
  <2>1. PICK a \in Answers : Answer("commit", a)
    BY <1>7 DEF AfterCommit
  <2>2. step = "commit" /\ Answer(step, a)
    BY <2>1 DEF Answer
  <2> QED
    BY <1>7, <2>2
<1>8. CASE AfterVersion
  <2>1. PICK a \in Answers : Answer("version", a)
    BY <1>8 DEF AfterVersion
  <2>2. step = "version" /\ Answer(step, a)
    BY <2>1 DEF Answer
  <2> QED
    BY <1>8, <2>2
<1>9. CASE AfterAbort
  <2>1. PICK a \in Answers : Answer("abort", a)
    BY <1>9 DEF AfterAbort
  <2>2. step = "abort" /\ Answer(step, a)
    BY <2>1 DEF Answer
  <2> QED
    BY <1>9, <2>2
<1> QED
  BY <1>1, <1>2, <1>3, <1>4, <1>5, <1>6, <1>7, <1>8, <1>9 DEF Afters

(* Every variable keeps its type and no retry loop runs over its budget.   *)
THEOREM TypeCorrect == Spec => []TypeOK
<1>1. Init => TypeOK
  <2> SUFFICES ASSUME Init PROVE TypeOK
    OBVIOUS
  <2>1. off \in Chunk /\ content \in [Chunk -> Slots \cup {"blank", "old", "bad"}]
    BY BoundsAssumption DEF Init, Chunk
  <2>2. waiting \in BOOLEAN /\ heard \in BOOLEAN
    BY Zenon DEF Init
  <2>3. wire \in Seq(Replies) /\ noise \in 0 .. MaxNoise /\ resets \in 0 .. MaxResets
    BY BoundsAssumption DEF Init
  <2> QED
    BY <2>1, <2>2, <2>3, BoundsAssumption DEF Init, TypeOK
<1>2. TypeOK /\ [Next]_vars => TypeOK'
  <2> SUFFICES ASSUME TypeOK, [Next]_vars PROVE TypeOK'
    OBVIOUS
  <2>1. CASE Sends
    <3>1. /\ wire' \in Seq(Replies) /\ noise' \in 0 .. MaxNoise
          /\ mode' \in {"app", "idle", "erased", "verified"} /\ inactive' \in Slots
          /\ content' \in [Chunk -> Slots \cup {"blank", "old", "bad"}]
          /\ active' \in {"old", "new", "broken"} /\ waiting' \in BOOLEAN
      BY <2>1, SendKeepsType
    <3>2. UNCHANGED <<step, try, heard, off, img, result, resets>>
      BY <2>1, SendKeepsType
    <3> QED
      BY <3>1, <3>2 DEF TypeOK, Chunk
  <2>2. CASE Afters
    <3>1. PICK a \in Answers : Answer(step, a)
      BY <2>2, AfterSteps
    <3>2. /\ wire' \in Seq(Replies) /\ noise' \in 0 .. MaxNoise /\ waiting' = FALSE
          /\ UNCHANGED controller /\ resets' = resets
      BY <3>1, AnswerCarried DEF Carried, Answer
    <3>3. /\ mode' \in {"app", "idle", "erased", "verified"} /\ inactive' \in Slots
          /\ content' \in [Chunk -> Slots \cup {"blank", "old", "bad"}]
          /\ active' \in {"old", "new", "broken"} /\ resets' \in 0 .. MaxResets
      BY <3>2 DEF controller, TypeOK, Chunk
    <3> SUFFICES /\ step' \in {"enter", "info", "erase", "data", "verify", "status",
                              "commit", "version", "abort", "done"}
                 /\ heard' \in BOOLEAN /\ try' \in Nat
                 /\ step' = "info" => try' < InfoTries
                 /\ step' = "data" => try' < DataTries
                 /\ step' \in {"verify", "status"} => try' < VerifyTries
                 /\ step' = "version" => try' < VersionTries
                 /\ off' \in Chunk /\ img' \in Slots \cup {"none"}
                 /\ step' \in {"erase", "data"} => img' \in Slots
                 /\ result' \in {"none", "OK", "ENTER_REFUSED", "NO_DEVICE", "INFO_BAD",
                                 "ERASE_FAIL", "WRITE_FAIL", "VERIFY_CRC", "COMMIT_FAIL",
                                 "VERSION_MISMATCH"}
      BY <3>2, <3>3 DEF TypeOK, Chunk
    <3> USE BoundsAssumption DEF Answer, Goto, Finish, AbortWith
    <3>4. CASE AfterEnter
      BY <3>4 DEF AfterEnter, TypeOK, Chunk
    <3>5. CASE AfterInfo
      BY <3>5, FrameTyped DEF AfterInfo, Answers, Silence, TypeOK, Chunk
    <3>6. CASE AfterErase
      BY <3>6 DEF AfterErase, TypeOK, Chunk
    <3>7. CASE AfterData
      BY <3>7 DEF AfterData, TypeOK, Chunk
    <3>8. CASE AfterVerify
      BY <3>8 DEF AfterVerify, TypeOK, Chunk
    <3>9. CASE AfterStatus
      BY <3>9 DEF AfterStatus, TypeOK, Chunk
    <3>10. CASE AfterCommit
      BY <3>10 DEF AfterCommit, TypeOK, Chunk
    <3>11. CASE AfterVersion
      BY <3>11 DEF AfterVersion, TypeOK, Chunk
    <3>12. CASE AfterAbort
      BY <3>12 DEF AfterAbort, TypeOK, Chunk
    <3> QED
      BY <2>2, <3>4, <3>5, <3>6, <3>7, <3>8, <3>9, <3>10, <3>11, <3>12 DEF Afters
  <2>3. CASE ControllerResets
    BY <2>3, BoundsAssumption DEF ControllerResets, TypeOK, host, Chunk
  <2>4. CASE UNCHANGED vars
    BY <2>4 DEF vars, host, controller, TypeOK, Chunk
  <2> QED
    BY <2>1, <2>2, <2>3, <2>4 DEF Next
<1> QED
  BY <1>1, <1>2, PTL DEF Spec

-----------------------------------------------------------------------------
(* Safety.  The invariant says what each reply under way, and each step of *)
(* the session, tells of the controller.                                   *)

(* What a reply under way tells: an ACK of a chunk that the chunk is       *)
(* written, of ERASE that the controller erased, of VERIFY that the image  *)
(* is complete, a version that it is the one that runs.                    *)
FrameSound(f) ==
    /\ f.kind = "info" => f.arg = inactive
    /\ f.kind = "data" =>
         step \notin {"enter", "info", "erase"} /\ content[f.arg] \in {img, "bad"}
    /\ f = Ack("erase") =>
         step \notin {"enter", "info"} /\ (step = "erase" => mode \in {"erased", "app"})
    /\ f \in {Ack("verify"), Verified} =>
         step \notin {"enter", "info", "erase", "data"} /\ Complete
    /\ f.kind = "reg2" => step \in {"version", "done"} /\ f.arg = active

(* What the session has achieved when it is at a step.                     *)
StepSound ==
    /\ step \in {"erase", "data", "verify", "status", "commit"} => img = inactive
    /\ step = "data" =>
         /\ mode \in {"erased", "app"}
         /\ \A c \in Chunk : c < off => content[c] \in {img, "bad"}
    /\ step \in {"verify", "status"} => \A c \in Chunk : content[c] \in {img, "bad"}
    /\ step \in {"verify", "status", "commit"} /\ mode = "verified" => Complete
    /\ step = "commit" /\ ~waiting => Complete

(* The image that runs, and what is said of it.                            *)
ActiveSound ==
    /\ active \in {"old", "new"}
    /\ step \in {"enter", "info", "erase", "data", "verify", "status"}
         \/ (step = "commit" /\ ~waiting) => active = "old"
    /\ result = "none" <=> step \notin {"abort", "done"}
    /\ result = "OK" => active = "new"
    /\ Outcome = "kept" => active = "old"

SafeInv == (\A f \in Frames : FrameSound(f)) /\ StepSound /\ ActiveSound

(* A request keeps it: its reply is sound, and those before it stay so.    *)
LEMMA SendKeepsSafe ==
    ASSUME TypeOK, SafeInv, Sends
    PROVE  SafeInv'
<1>1. waiting' = TRUE /\ UNCHANGED <<step, try, heard, off, img, result, resets>>
  BY DEF Sends, Send
<1> SUFFICES (\A f \in Frames' : FrameSound(f)') /\ StepSound' /\ ActiveSound'
  BY DEF SafeInv
<1> USE DEF SafeInv, TypeOK, controller
<1>2. CASE Send("enter", EnterBootloader)
  <2>1. step = "enter" /\ ~waiting
    BY <1>2 DEF Send
  <2>2. ASSUME NEW f \in Frames'
        PROVE  FrameSound(f)'
    BY <1>2, <1>1, <2>1, <2>2, SendingEnter
       DEF Carried, FrameSound, Echo, Refusal, Ack, Verified, Complete
  <2>3. StepSound'
    BY <1>2, <1>1, <2>1, SendingEnter DEF StepSound, Complete
  <2>4. ActiveSound'
    BY <1>2, <1>1, <2>1, SendingEnter DEF StepSound, ActiveSound, Outcome, Complete
  <2> QED
    BY <2>2, <2>3, <2>4
<1>3. CASE Send("info", AnswerInfo)
  <2>1. step = "info" /\ ~waiting
    BY <1>3 DEF Send
  <2>2. ASSUME NEW f \in Frames'
        PROVE  FrameSound(f)'
    BY <1>3, <1>1, <2>1, <2>2, SendingInfo
       DEF Carried, FrameSound, Info, Ack, Verified, Complete
  <2>3. StepSound'
    BY <1>3, <1>1, <2>1, SendingInfo DEF StepSound, Complete
  <2>4. ActiveSound'
    BY <1>3, <1>1, <2>1, SendingInfo DEF StepSound, ActiveSound, Outcome, Complete
  <2> QED
    BY <2>2, <2>3, <2>4
<1>4. CASE Send("erase", Erase)
  <2>1. step = "erase" /\ ~waiting
    BY <1>4 DEF Send
  <2>2. ASSUME NEW f \in Frames'
        PROVE  FrameSound(f)'
    BY <1>4, <1>1, <2>1, <2>2, SendingErase
       DEF Carried, FrameSound, Ack, Nak, Verified, Complete
  <2>3. StepSound'
    BY <1>4, <1>1, <2>1, SendingErase DEF StepSound, Complete
  <2>4. ActiveSound'
    BY <1>4, <1>1, <2>1, SendingErase DEF StepSound, ActiveSound, Outcome, Complete
  <2> QED
    BY <2>2, <2>3, <2>4
<1>5. CASE Send("data", WriteChunk)
  <2>1. step = "data" /\ ~waiting
    BY <1>5 DEF Send
  <2>2. ASSUME NEW f \in Frames'
        PROVE  FrameSound(f)'
    <3>1. CASE f \in Frames
      BY <1>5, <1>1, <2>1, <3>1, SendingData, FrameTyped DEF FrameSound
    <3>2. CASE f = DataNak
      BY <1>5, <1>1, <2>1, <3>2 DEF FrameSound, Ack, DataNak, Verified
    <3>3. CASE /\ f = DataAck(off)
               /\ \E x \in {img, "bad"} : content' = [content EXCEPT ![off] = x]
      <4>1. content'[off] \in {img, "bad"}
        BY <3>3
      <4> QED
        BY <1>1, <2>1, <3>3, <4>1 DEF FrameSound, Ack, DataAck, Verified
    <3> QED
      BY <1>5, <2>2, <3>1, <3>2, <3>3, SendingData DEF Carried
  <2>3. StepSound'
    BY <1>5, <1>1, <2>1, SendingData DEF StepSound, Complete
  <2>4. ActiveSound'
    BY <1>5, <1>1, <2>1, SendingData DEF StepSound, ActiveSound, Outcome, Complete
  <2> QED
    BY <2>2, <2>3, <2>4
<1>6. CASE Send("verify", Check)
  <2>1. step = "verify" /\ ~waiting
    BY <1>6 DEF Send
  <2>2. ASSUME NEW f \in Frames'
        PROVE  FrameSound(f)'
    BY <1>6, <1>1, <2>1, <2>2, SendingVerify
       DEF Carried, FrameSound, StepSound, Ack, Nak, Verified, Complete
  <2>3. StepSound'
    BY <1>6, <1>1, <2>1, SendingVerify DEF StepSound, Complete
  <2>4. ActiveSound'
    BY <1>6, <1>1, <2>1, SendingVerify DEF StepSound, ActiveSound, Outcome, Complete
  <2> QED
    BY <2>2, <2>3, <2>4
<1>7. CASE Send("status", AnswerStatus)
  <2>1. step = "status" /\ ~waiting
    BY <1>7 DEF Send
  <2>2. ASSUME NEW f \in Frames'
        PROVE  FrameSound(f)'
    BY <1>7, <1>1, <2>1, <2>2, SendingStatus
       DEF Carried, FrameSound, StepSound, Ack, Status, Verified, Complete
  <2>3. StepSound'
    BY <1>7, <1>1, <2>1, SendingStatus DEF StepSound, Complete
  <2>4. ActiveSound'
    BY <1>7, <1>1, <2>1, SendingStatus DEF StepSound, ActiveSound, Outcome, Complete
  <2> QED
    BY <2>2, <2>3, <2>4
<1>8. CASE Send("commit", Commit)
  <2>1. step = "commit" /\ ~waiting
    BY <1>8 DEF Send
  <2>2. ASSUME NEW f \in Frames'
        PROVE  FrameSound(f)'
    BY <1>8, <1>1, <2>1, <2>2, SendingCommit
       DEF Carried, FrameSound, StepSound, Ack, Nak, Verified, Complete
  <2>3. StepSound'
    BY <1>8, <1>1, <2>1, SendingCommit DEF StepSound, Complete
  <2>4. ActiveSound'
    BY <1>8, <1>1, <2>1, SendingCommit DEF StepSound, ActiveSound, Outcome, Complete
  <2> QED
    BY <2>2, <2>3, <2>4
<1>9. CASE Send("version", AnswerVersion)
  <2>1. step = "version" /\ ~waiting
    BY <1>9 DEF Send
  <2>2. ASSUME NEW f \in Frames'
        PROVE  FrameSound(f)'
    BY <1>9, <1>1, <2>1, <2>2, SendingVersion
       DEF Carried, FrameSound, Ack, Reg2, Verified, Complete
  <2>3. StepSound'
    BY <1>9, <1>1, <2>1, SendingVersion DEF StepSound, Complete
  <2>4. ActiveSound'
    BY <1>9, <1>1, <2>1, SendingVersion DEF StepSound, ActiveSound, Outcome, Complete
  <2> QED
    BY <2>2, <2>3, <2>4
<1>10. CASE Send("abort", Discard)
  <2>1. step = "abort" /\ ~waiting
    BY <1>10 DEF Send
  <2>2. ASSUME NEW f \in Frames'
        PROVE  FrameSound(f)'
    BY <1>10, <1>1, <2>1, <2>2, SendingAbort
       DEF Carried, FrameSound, Ack, Verified, Complete
  <2>3. StepSound'
    BY <1>10, <1>1, <2>1, SendingAbort DEF StepSound, Complete
  <2>4. ActiveSound'
    BY <1>10, <1>1, <2>1, SendingAbort DEF StepSound, ActiveSound, Outcome, Complete
  <2> QED
    BY <2>2, <2>3, <2>4
<1> QED
  BY <1>2, <1>3, <1>4, <1>5, <1>6, <1>7, <1>8, <1>9, <1>10 DEF Sends
(* So does what the session makes of an answer.                            *)
LEMMA AfterKeepsSafe ==
    ASSUME TypeOK, SafeInv, Afters
    PROVE  SafeInv'
<1>1. PICK a \in Answers : Answer(step, a)
  BY AfterSteps
<1>2. Frames' \subseteq Frames /\ waiting /\ waiting' = FALSE /\ UNCHANGED controller
  BY <1>1, AnswerCarried DEF Carried, Answer
<1> SUFFICES /\ \A f \in Frames : FrameSound(f) => FrameSound(f)'
             /\ StepSound' /\ ActiveSound'
  BY <1>2 DEF SafeInv
<1>3. ASSUME NEW b \in Answers, b # Silence
      PROVE  FrameSound(b)
  BY <1>3 DEF SafeInv, Answers
<1>4. /\ img \in Slots \cup {"none"} /\ off \in Chunk
      /\ mode \in {"app", "idle", "erased", "verified"}
  BY DEF TypeOK
<1> USE <1>2, <1>4 DEF SafeInv, controller
<1>5. CASE step = "enter" /\ AfterEnter
  <2>1. PICK b \in Answers : (b # Silence => FrameSound(b)) /\ AfterEnter!(b)
    BY <1>3, <1>5 DEF AfterEnter
  <2>2. \A f \in Frames : FrameSound(f) => FrameSound(f)'
    BY <1>5, <2>1 DEF FrameSound, Goto, Finish, AbortWith, Complete, Ack
  <2>3. StepSound'
    BY <1>5, <2>1
       DEF StepSound, FrameSound, Goto, Finish, AbortWith, Complete, Ack, Verified, Silence
  <2>4. ActiveSound'
    BY <1>5, <2>1 DEF ActiveSound, FrameSound, Outcome, Goto, Finish, AbortWith, Silence
  <2> QED
    BY <2>2, <2>3, <2>4
<1>6. CASE step = "info" /\ AfterInfo
  <2>1. PICK b \in Answers : (b # Silence => FrameSound(b)) /\ AfterInfo!(b)
    BY <1>3, <1>6 DEF AfterInfo
  <2>2. \A f \in Frames : FrameSound(f) => FrameSound(f)'
    BY <1>6, <2>1 DEF FrameSound, Goto, Finish, AbortWith, Complete, Ack
  <2>3. StepSound'
    BY <1>6, <2>1
       DEF StepSound, FrameSound, Goto, Finish, AbortWith, Complete, Ack, Verified, Silence
  <2>4. ActiveSound'
    BY <1>6, <2>1 DEF ActiveSound, FrameSound, Outcome, Goto, Finish, AbortWith, Silence
  <2> QED
    BY <2>2, <2>3, <2>4
<1>7. CASE step = "erase" /\ AfterErase
  <2>1. PICK b \in Answers : (b # Silence => FrameSound(b)) /\ AfterErase!(b)
    BY <1>3, <1>7 DEF AfterErase
  <2>2. \A f \in Frames : FrameSound(f) => FrameSound(f)'
    BY <1>7, <2>1 DEF FrameSound, Goto, Finish, AbortWith, Complete, Ack
  <2>3. StepSound'
    BY <1>7, <2>1
       DEF StepSound, FrameSound, Goto, Finish, AbortWith, Ack, DataAck, Silence, Chunk
  <2>4. ActiveSound'
    BY <1>7, <2>1 DEF ActiveSound, FrameSound, Outcome, Goto, Finish, AbortWith, Silence
  <2> QED
    BY <2>2, <2>3, <2>4
<1>8. CASE step = "data" /\ AfterData
  <2>1. PICK b \in Answers : (b # Silence => FrameSound(b)) /\ AfterData!(b)
    BY <1>3, <1>8 DEF AfterData
  <2>2. \A f \in Frames : FrameSound(f) => FrameSound(f)'
    BY <1>8, <2>1 DEF FrameSound, Goto, Finish, AbortWith, Complete, Ack
  <2>3. StepSound'
    BY <1>8, <2>1
       DEF StepSound, FrameSound, Goto, Finish, AbortWith, Ack, DataAck, Silence, Chunk
  <2>4. ActiveSound'
    BY <1>8, <2>1 DEF ActiveSound, FrameSound, Outcome, Goto, Finish, AbortWith, Silence
  <2> QED
    BY <2>2, <2>3, <2>4
<1>9. CASE step = "verify" /\ AfterVerify
  <2>1. PICK b \in Answers : (b # Silence => FrameSound(b)) /\ AfterVerify!(b)
    BY <1>3, <1>9 DEF AfterVerify
  <2>2. \A f \in Frames : FrameSound(f) => FrameSound(f)'
    BY <1>9, <2>1 DEF FrameSound, Goto, Finish, AbortWith, Complete, Ack
  <2>3. StepSound'
    BY <1>9, <2>1
       DEF StepSound, FrameSound, Goto, Finish, AbortWith, Complete, Ack, Verified, Silence
  <2>4. ActiveSound'
    BY <1>9, <2>1 DEF ActiveSound, FrameSound, Outcome, Goto, Finish, AbortWith, Silence
  <2> QED
    BY <2>2, <2>3, <2>4
<1>10. CASE step = "status" /\ AfterStatus
  <2>1. PICK b \in Answers : (b # Silence => FrameSound(b)) /\ AfterStatus!(b)
    BY <1>3, <1>10 DEF AfterStatus
  <2>2. \A f \in Frames : FrameSound(f) => FrameSound(f)'
    BY <1>10, <2>1 DEF FrameSound, Goto, Finish, AbortWith, Complete, Ack
  <2>3. StepSound'
    BY <1>10, <2>1
       DEF StepSound, FrameSound, Goto, Finish, AbortWith, Complete, Ack, Verified, Silence
  <2>4. ActiveSound'
    BY <1>10, <2>1 DEF ActiveSound, FrameSound, Outcome, Goto, Finish, AbortWith, Silence
  <2> QED
    BY <2>2, <2>3, <2>4
<1>11. CASE step = "commit" /\ AfterCommit
  <2>1. PICK b \in Answers : (b # Silence => FrameSound(b)) /\ AfterCommit!(b)
    BY <1>3, <1>11 DEF AfterCommit
  <2>2. \A f \in Frames : FrameSound(f) => FrameSound(f)'
    BY <1>11, <2>1 DEF FrameSound, Goto, Finish, AbortWith, Complete, Ack
  <2>3. StepSound'
    BY <1>11, <2>1
       DEF StepSound, FrameSound, Goto, Finish, AbortWith, Complete, Ack, Verified, Silence
  <2>4. ActiveSound'
    BY <1>11, <2>1 DEF ActiveSound, FrameSound, Outcome, Goto, Finish, AbortWith, Silence
  <2> QED
    BY <2>2, <2>3, <2>4
<1>12. CASE step = "version" /\ AfterVersion
  <2>1. PICK b \in Answers : (b # Silence => FrameSound(b)) /\ AfterVersion!(b)
    BY <1>3, <1>12 DEF AfterVersion
  <2>2. \A f \in Frames : FrameSound(f) => FrameSound(f)'
    BY <1>12, <2>1 DEF FrameSound, Goto, Finish, AbortWith, Complete, Ack
  <2>3. StepSound'
    BY <1>12, <2>1
       DEF StepSound, FrameSound, Goto, Finish, AbortWith, Complete, Ack, Verified, Silence
  <2>4. ActiveSound'
    BY <1>12, <2>1 DEF ActiveSound, FrameSound, Outcome, Goto, Finish, AbortWith, Silence
  <2> QED
    BY <2>2, <2>3, <2>4
<1>13. CASE step = "abort" /\ AfterAbort
  <2>1. PICK b \in Answers : (b # Silence => FrameSound(b)) /\ AfterAbort!(b)
    BY <1>3, <1>13 DEF AfterAbort
  <2>2. \A f \in Frames : FrameSound(f) => FrameSound(f)'
    BY <1>13, <2>1 DEF FrameSound, Goto, Finish, AbortWith, Complete, Ack
  <2>3. StepSound'
    BY <1>13, <2>1
       DEF StepSound, FrameSound, Goto, Finish, AbortWith, Complete, Ack, Verified, Silence
  <2>4. ActiveSound'
    BY <1>13, <2>1 DEF ActiveSound, FrameSound, Outcome, Goto, Finish, AbortWith, Silence
  <2> QED
    BY <2>2, <2>3, <2>4
<1> QED
  BY AfterSteps, <1>5, <1>6, <1>7, <1>8, <1>9, <1>10, <1>11, <1>12, <1>13
(* The invariant holds.                                                    *)
LEMMA Safe == Spec => []SafeInv
<1>1. Init => SafeInv
  BY DEF Init, SafeInv, Frames, StepSound, ActiveSound, Outcome
<1>2. TypeOK /\ SafeInv /\ [Next]_vars => SafeInv'
  <2> SUFFICES ASSUME TypeOK, SafeInv, [Next]_vars PROVE SafeInv'
    OBVIOUS
  <2>1. CASE Sends
    BY <2>1, SendKeepsSafe
  <2>2. CASE Afters
    BY <2>2, AfterKeepsSafe
  <2>3. CASE ControllerResets
    BY <2>3 DEF ControllerResets, host, SafeInv, Frames, FrameSound, StepSound, ActiveSound,
                Outcome, Complete
  <2>4. CASE UNCHANGED vars
    BY <2>4 DEF vars, host, controller, SafeInv, Frames, FrameSound, StepSound, ActiveSound,
                Outcome, Complete
  <2> QED
    BY <2>1, <2>2, <2>3, <2>4 DEF Next
<1> QED
  BY <1>1, <1>2, TypeCorrect, PTL DEF Spec

(* VERIFY is only asked for when every chunk was programmed.               *)
THEOREM AllProgrammed == Spec => []Programmed
<1>1. SafeInv => Programmed
  BY DEF SafeInv, StepSound, Programmed
<1> QED
  BY <1>1, Safe, PTL

(* COMMIT is only sent for the complete image built for the slot.          *)
THEOREM OnlyVerifiedCommitted == Spec => []CommitVerified
<1>1. SafeInv => CommitVerified
  BY DEF SafeInv, StepSound, CommitVerified
<1> QED
  BY <1>1, Safe, PTL

(* A transfer keeps the promise of ControllerImage: the controller runs    *)
(* the old image or, after one switch, the complete new one, and what is   *)
(* reported of it is true.                                                 *)
THEOREM Implements == Spec => ImageSpec
<1>1. Init => Image!Init
  BY DEF Init, Image!Init, Outcome
<1>2. SafeInv /\ SafeInv' /\ TypeOK /\ [Next]_vars => [Image!Next]_Image!vars
  <2> SUFFICES ASSUME SafeInv, SafeInv', TypeOK, [Next]_vars
               PROVE  [Image!Next]_Image!vars
    OBVIOUS
  <2> USE DEF Image!Next, Image!vars
  <2>1. CASE Sends
    <3>1. Outcome' = Outcome
      BY <2>1, SendKeepsType DEF Outcome
    <3>2. CASE active' = active
      BY <3>1, <3>2
    <3>3. CASE active' # active
      <4>1. step = "commit" /\ ~waiting
        BY <2>1, <3>3, SendingEnter, SendingInfo, SendingErase, SendingData, SendingVerify,
           SendingStatus, SendingVersion, SendingAbort DEF Sends, Send, controller
      <4>2. active = "old" /\ active' = "new" /\ Outcome = "none"
        BY <3>3, <4>1 DEF SafeInv, ActiveSound, Outcome
      <4> QED
        BY <3>1, <4>2 DEF Image!Switch
    <3> QED
      BY <3>2, <3>3
  <2>2. CASE Afters
    <3>1. active' = active
      BY <2>2 DEF Afters, AfterEnter, AfterInfo, AfterErase, AfterData, AfterVerify,
                  AfterStatus, AfterCommit, AfterVersion, AfterAbort, Answer, controller
    <3>2. CASE step = "abort"
      <4>1. result' = result
        BY <2>2, <3>2 DEF Afters, AfterEnter, AfterInfo, AfterErase, AfterData, AfterVerify,
                    AfterStatus, AfterCommit, AfterVersion, AfterAbort, Answer
      <4> QED
        BY <3>1, <4>1 DEF Outcome
    <3>3. CASE step # "abort"
      <4>1. step # "done"
        BY <2>2 DEF Afters, AfterEnter, AfterInfo, AfterErase, AfterData, AfterVerify,
                    AfterStatus, AfterCommit, AfterVersion, AfterAbort, Answer
      <4>2. result = "none"
        BY <3>3, <4>1 DEF SafeInv, ActiveSound
      <4>3. /\ Outcome = "none" /\ Outcome' \in {"none", "ok", "kept", "unknown"}
            /\ Outcome' = "ok" => active' = "new"
            /\ Outcome' = "kept" => active' = "old"
        BY <4>2 DEF SafeInv, ActiveSound, Outcome
      <4> QED
        BY <3>1, <4>3 DEF Image!Report
    <3> QED
      BY <3>2, <3>3
  <2>3. CASE ControllerResets \/ UNCHANGED vars
    BY <2>3 DEF ControllerResets, vars, host, controller, Outcome
  <2> QED
    BY <2>1, <2>2, <2>3 DEF Next
<1> QED
  BY <1>1, <1>2, Safe, TypeCorrect, PTL DEF Spec, ImageSpec, Image!Spec

-----------------------------------------------------------------------------
(* Retries.  The invariant counts the disturbances: at least one for each  *)
(* attempt that failed, and for the one under way unless its answer comes. *)

(* Tried(r): the attempt under way meets r, unless it was disturbed.       *)
Tried(r) == noise >= try + 1 \/ (wire # <<>> /\ Head(wire) = r)

(* Each attempt that failed met a disturbance of its own.                  *)
RetryInv ==
    /\ resets = 0 /\ step = "erase" /\ Ack("erase") \in Frames => mode = "erased"
    /\ resets = 0 /\ step = "data" =>
         /\ mode = "erased" /\ noise >= try
         /\ waiting => Tried(DataAck(off))
    /\ resets = 0 /\ step = "verify" =>
         /\ mode \in {"erased", "verified"} /\ noise >= try
         /\ waiting => \/ Tried(Ack("verify")) \/ Tried(Nak("crc"))
                       \/ mode = "verified" /\ Tried(Nak("state"))
    /\ resets = 0 /\ step = "status" =>
         /\ mode \in {"erased", "verified"} /\ noise >= try
         /\ mode # "verified" /\ ~waiting => noise >= try + 1
         /\ waiting => Tried(Verified)
    /\ step = "version" /\ active = "new" =>
         /\ noise >= try
         /\ waiting => noise >= try + 1 \/ (wire # <<>> /\ Head(wire).kind = "reg2")
    /\ RetriesSuffice

LEMMA HeadFrame ==
    ASSUME TypeOK, wire # <<>>
    PROVE  Head(wire) \in Frames
<1>1. wire \in Seq(Replies) /\ Len(wire) \in Nat \ {0} /\ DOMAIN wire = 1 .. Len(wire)
  BY LenProperties DEF TypeOK
<1> QED
  BY <1>1 DEF Frames

(* An exchange that did not bring r was disturbed, if r was to come.       *)
LEMMA AnswerTried ==
    ASSUME TypeOK, NEW at, NEW a \in Answers, Answer(at, a), NEW r, Tried(r), a # r,
           noise >= try
    PROVE  noise' >= try + 1
BY AnswerCarried DEF Tried, Carried, TypeOK

LEMMA SendKeepsRetry ==
    ASSUME TypeOK, SafeInv, RetryInv, Sends
    PROVE  RetryInv'
<1>1. waiting' = TRUE /\ UNCHANGED <<step, try, heard, off, img, result, resets>>
  BY DEF Sends, Send
<1>2. noise \in Nat /\ noise' \in Nat /\ try \in Nat
  <2>1. noise' \in 0 .. MaxNoise
    BY SendKeepsType
  <2> QED
    BY <2>1, BoundsAssumption DEF TypeOK
<1>3. noise' >= noise
  BY SendingEnter, SendingInfo, SendingErase, SendingData, SendingVerify, SendingStatus,
     SendingCommit, SendingVersion, SendingAbort DEF Sends, Carried
<1>4. result # "none" => active' = active
  BY SendingAbort DEF Sends, Send, SafeInv, ActiveSound
<1>5. RetriesSuffice'
  BY <1>1, <1>2, <1>3, <1>4, BoundsAssumption
     DEF RetryInv, RetriesSuffice, SafeInv, ActiveSound
<1> USE <1>1, <1>2, <1>3, <1>5 DEF RetryInv, controller
<1>6. CASE step = "erase"
  <2>1. Send("erase", Erase)
    BY <1>6 DEF Sends, Send
  <2> QED
    BY <1>6, <2>1, SendingErase DEF Carried, Ack, Nak
<1>7. CASE step = "data"
  <2>1. Send("data", WriteChunk)
    BY <1>7 DEF Sends, Send
  <2> QED
    BY <1>7, <2>1, SendingData DEF Answered, Tried, DataAck
<1>8. CASE step = "verify"
  <2>1. Send("verify", Check)
    BY <1>8 DEF Sends, Send
  <2> QED
    BY <1>8, <2>1, SendingVerify DEF Answered, Tried
<1>9. CASE step = "status"
  <2>1. Send("status", AnswerStatus) /\ ~waiting
    BY <1>9 DEF Sends, Send
  <2> QED
    BY <1>9, <2>1, SendingStatus DEF Answered, Carried, Tried, Status, Verified
<1>10. CASE step = "version"
  <2>1. Send("version", AnswerVersion)
    BY <1>10 DEF Sends, Send
  <2> QED
    BY <1>10, <2>1, SendingVersion DEF Answered, Reg2
<1>11. CASE step \notin {"erase", "data", "verify", "status", "version"}
  BY <1>11
<1> QED
  BY <1>6, <1>7, <1>8, <1>9, <1>10, <1>11

LEMMA AfterKeepsRetry ==
    ASSUME TypeOK, SafeInv, SafeInv', RetryInv, Afters
    PROVE  RetryInv'
<1>1. noise \in Nat /\ try \in Nat
  BY BoundsAssumption DEF TypeOK
<1>2. /\ UNCHANGED controller /\ waiting /\ waiting' = FALSE /\ resets' = resets
      /\ noise' \in Nat /\ noise' >= noise /\ Frames' \subseteq Frames
  <2>1. PICK a \in Answers : Answer(step, a)
    BY AfterSteps
  <2>2. Carried({})
    BY <2>1, AnswerCarried
  <2> QED
    BY <2>1, <2>2, <1>1, BoundsAssumption DEF Answer, Carried
<1> USE <1>1, <1>2, BoundsAssumption DEF RetryInv, controller
<1>3. CASE AfterEnter \/ AfterInfo
  <2>1. step \in {"enter", "info"} /\ step' \in {"info", "erase", "done"}
    BY <1>3 DEF AfterEnter, AfterInfo, Answer, Goto, Finish
  <2>2. Ack("erase") \notin Frames
    BY <2>1 DEF SafeInv, FrameSound
  <2>3. RetriesSuffice'
    BY <1>3 DEF AfterEnter, AfterInfo, Answer, Goto, Finish, RetriesSuffice
  <2> QED
    BY <2>1, <2>2, <2>3
<1>4. CASE AfterErase
  <2>1. PICK a \in Answers : AfterErase!(a)
    BY <1>4 DEF AfterErase
  <2>2. step = "erase" /\ step' \in {"data", "done"} /\ RetriesSuffice'
    BY <2>1 DEF Answer, Goto, Finish, RetriesSuffice
  <2>3. CASE a = Ack("erase")
    <3>1. Ack("erase") \in Frames
      BY <2>3 DEF Answers, Silence, Ack
    <3> QED
      BY <2>1, <2>2, <2>3, <3>1 DEF Goto
  <2>4. CASE a # Ack("erase")
    BY <2>1, <2>2, <2>4 DEF Finish
  <2> QED
    BY <2>3, <2>4
<1>5. CASE AfterData
  <2>1. PICK a \in Answers : AfterData!(a)
    BY <1>5 DEF AfterData
  <2>2. step = "data" /\ Answer("data", a)
    BY <2>1 DEF Answer
  <2>3. resets = 0 /\ a # DataAck(off) => noise' >= try + 1
    BY <2>2, AnswerTried
  <2>4. RetriesSuffice'
    BY <2>1, <2>2, <2>3 DEF Goto, AbortWith, RetriesSuffice, SafeInv, ActiveSound
  <2> QED
    BY <2>1, <2>2, <2>3, <2>4 DEF Goto, AbortWith
<1>6. CASE AfterVerify
  <2>1. PICK a \in Answers : AfterVerify!(a)
    BY <1>6 DEF AfterVerify
  <2>2. step = "verify" /\ Answer("verify", a)
    BY <2>1 DEF Answer
  <2>3. resets = 0 /\ a \notin {Ack("verify"), Nak("crc")} =>
          mode = "verified" \/ noise' >= try + 1
    BY <2>2, AnswerTried
  <2>4. RetriesSuffice'
    BY <2>1, <2>2 DEF Goto, AbortWith, RetriesSuffice, SafeInv, ActiveSound
  <2> QED
    BY <2>1, <2>2, <2>3, <2>4 DEF Goto, AbortWith
<1>7. CASE AfterStatus
  <2>1. PICK a \in Answers : AfterStatus!(a)
    BY <1>7 DEF AfterStatus
  <2>2. step = "status" /\ Answer("status", a)
    BY <2>1 DEF Answer
  <2>3. resets = 0 /\ a # Verified => noise' >= try + 1
    BY <2>2, AnswerCarried DEF Tried
  <2>4. RetriesSuffice'
    BY <2>1, <2>2, <2>3 DEF Goto, AbortWith, RetriesSuffice, SafeInv, ActiveSound
  <2> QED
    BY <2>1, <2>2, <2>3, <2>4 DEF Goto, AbortWith
<1>8. CASE AfterCommit
  <2>1. step = "commit" /\ step' \in {"abort", "version"} /\ (step' = "version" => try' = 0)
    BY <1>8 DEF AfterCommit, Answer, Goto, AbortWith
  <2>2. RetriesSuffice'
    BY <1>8, <2>1 DEF AfterCommit, Goto, AbortWith, RetriesSuffice, SafeInv, ActiveSound
  <2> QED
    BY <2>1, <2>2
<1>9. CASE AfterVersion
  <2>1. PICK a \in Answers : AfterVersion!(a)
    BY <1>9 DEF AfterVersion
  <2>2. step = "version" /\ Answer("version", a)
    BY <2>1 DEF Answer
  <2>3. active = "new" /\ a.kind # "reg2" => noise' >= try + 1
    BY <2>2, AnswerCarried
  <2>4. a.kind = "reg2" => a.arg = active
    BY DEF SafeInv, FrameSound, Answers, Silence
  <2>5. RetriesSuffice'
    BY <2>1, <2>2, <2>3, <2>4 DEF Finish, RetriesSuffice, SafeInv, ActiveSound
  <2> QED
    BY <2>1, <2>2, <2>3, <2>5 DEF Finish
<1>10. CASE AfterAbort
  <2>1. step' = "done" /\ result' = result
    BY <1>10 DEF AfterAbort, Answer
  <2>2. RetriesSuffice'
    BY <2>1 DEF RetriesSuffice
  <2> QED
    BY <2>1, <2>2
<1> QED
  BY <1>3, <1>4, <1>5, <1>6, <1>7, <1>8, <1>9, <1>10 DEF Afters

(* The session never gives up on a chunk, on VERIFY or on the version of   *)
(* the new image while it had an attempt left that the bus let through.    *)
THEOREM GivesUpOnlyWhenSpent == Spec => []RetriesSuffice
<1>1. Init => RetryInv
  BY DEF Init, RetryInv, RetriesSuffice
<1>2. TypeOK /\ SafeInv /\ SafeInv' /\ RetryInv /\ [Next]_vars => RetryInv'
  <2> SUFFICES ASSUME TypeOK, SafeInv, SafeInv', RetryInv, [Next]_vars PROVE RetryInv'
    OBVIOUS
  <2>1. CASE Sends
    BY <2>1, SendKeepsRetry
  <2>2. CASE Afters
    BY <2>2, AfterKeepsRetry
  <2>3. CASE ControllerResets
    <3>1. resets' # 0
      BY <2>3 DEF ControllerResets, TypeOK
    <3> QED
      BY <2>3, <3>1 DEF ControllerResets, host, RetryInv, RetriesSuffice
  <2>4. CASE UNCHANGED vars
    BY <2>4 DEF vars, host, controller, RetryInv, RetriesSuffice, Tried, Frames
  <2> QED
    BY <2>1, <2>2, <2>3, <2>4 DEF Next
<1>3. RetryInv => RetriesSuffice
  BY DEF RetryInv
<1> QED
  BY <1>1, <1>2, <1>3, Safe, TypeCorrect, PTL DEF Spec
=============================================================================
