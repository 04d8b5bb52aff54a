---------------------------- MODULE FlashSession ----------------------------
(***************************************************************************)
(* One firmware transfer from the agent to the APU controller              *)
(* (bl_session.c, bl_session_flash): enter the bootloader, ask which slot  *)
(* is inactive, erase it, stream the image, verify, commit, read the       *)
(* version back.  The controller is the bootloader of bl_proto.h as the    *)
(* repository's own stand-in plays it (tests/fake_bootloader.c).           *)
(*                                                                         *)
(* The RS-485 bus (bl_transport_serial.c) loses or garbles requests and    *)
(* replies, and a reply may come late: after its request timed out, even   *)
(* after the tcflush of a later request, which then takes it for its own   *)
(* answer.  Frames carry no number; what a reply answers is told only by   *)
(* its function code and, for DATA, the echoed offset.  An image is a      *)
(* number of chunks, a chunk on the controller is named for the slot the   *)
(* image it came from was built for.                                       *)
(*                                                                         *)
(* A session may find the controller in the bootloader, left there by an   *)
(* earlier one that was interrupted; the bus is quiet when it starts.  An  *)
(* agent that stops in the middle is a behaviour that stops there.         *)
(***************************************************************************)
EXTENDS Naturals, Sequences

CONSTANTS
    Chunks,             \* chunks of an image
    InfoTries,          \* BL_INFO_RETRY_MAX (20)
    DataTries,          \* BL_DATA_MAX_ATTEMPTS (4)
    VerifyTries,        \* BL_VERIFY_MAX_ATTEMPTS (4)
    VersionTries,       \* BL_VERSION_RETRY_MAX (5)
    MaxNoise,           \* bound: frames lost, garbled or late, flash writes failed
    MaxResets           \* bound: resets of the controller by itself

ASSUME BoundsAssumption ==
    /\ Chunks \in Nat \ {0}
    /\ InfoTries \in Nat \ {0} /\ DataTries \in Nat \ {0}
    /\ VerifyTries \in Nat \ {0} /\ VersionTries \in Nat \ {0}
    /\ MaxNoise \in Nat /\ MaxResets \in Nat

VARIABLES
    \* bl_session_flash
    step,           \* its place: "enter" .. "version", "abort", "done"
    waiting,        \* in t->xfer, the request sent
    try,            \* attempts made at this step
    heard,          \* any_response: some frame came while INFO was asked for
    off,            \* the chunk it sends
    img,            \* the image it picked, "none" before INFO
    result,         \* bl_result_t, once decided
    \* RS-485
    wire,           \* replies on their way to the agent
    \* the controller
    mode,           \* "app", or the bootloader's "idle", "erased", "verified"
    inactive,       \* its inactive slot
    content,        \* what that slot holds, by chunk
    active,         \* the image it runs: "old", "new", or "broken"
    \* observation
    noise, resets

host == <<step, waiting, try, heard, off, img, result>>
controller == <<mode, inactive, content, active>>
vars == <<host, wire, controller, noise, resets>>

Slots == {"A", "B"}
Chunk == 1 .. Chunks

-----------------------------------------------------------------------------
(* Replies, by what the agent's parsers (bl_frame.c) tell apart.           *)

Ack(sub) == [kind |-> "ack", arg |-> sub]
Nak(err) == [kind |-> "nak", arg |-> err]           \* 0xC1
DataAck(c) == [kind |-> "data", arg |-> c]
DataNak == [kind |-> "data_nak", arg |-> "state"]   \* 0xC2
Info == [kind |-> "info", arg |-> inactive]
Status == [kind |-> "status", arg |-> mode]
Echo == [kind |-> "echo", arg |-> "enter"]
Refusal == [kind |-> "echo", arg |-> "refused"]     \* 0x86
Reg2 == [kind |-> "reg2", arg |-> active]
Silence == [kind |-> "none", arg |-> "none"]        \* xfer returned -1

Replies ==
    [kind : {"ack"}, arg : {"erase", "verify", "commit", "abort"}]
        \cup [kind : {"nak"}, arg : {"state", "crc"}]
        \cup [kind : {"data"}, arg : Chunk] \cup {DataNak}
        \cup [kind : {"info"}, arg : Slots]
        \cup [kind : {"status"}, arg : {"app", "idle", "erased", "verified"}]
        \cup [kind : {"echo"}, arg : {"enter", "refused"}]
        \cup [kind : {"reg2"}, arg : {"old", "new", "broken"}]

-----------------------------------------------------------------------------
(* The bus.                                                                *)

Disturb(n) == noise + n <= MaxNoise /\ noise' = noise + n

(* The replies that tcflush does not catch, because they are still to come. *)
Late == {SubSeq(wire, k, Len(wire)) : k \in 1 .. Len(wire) + 1}

(* A reply that arrives behind the late ones, or does not arrive.          *)
Reply(r, faults) ==
    \E late \in Late :
        \/ wire' = Append(late, r) /\ Disturb(Len(late) + faults)
        \/ wire' = late /\ Disturb(Len(late) + faults + 1)

NoReply(faults) == \E late \in Late : wire' = late /\ Disturb(Len(late) + faults)

(* bl_transport_serial_xfer(): flush and send; the request may get lost.   *)
(* The flush of wait_reset() comes just before the one of the next send.   *)
Send(at, handled) ==
    /\ step = at /\ ~waiting
    /\ waiting' = TRUE
    /\ \/ handled
       \/ NoReply(1) /\ UNCHANGED controller
    /\ UNCHANGED <<step, try, heard, off, img, result, resets>>

(* ... and take the first frame that comes, unless the time is up first or *)
(* the frame fails its CRC.                                                *)
Answer(at, a) ==
    /\ step = at /\ waiting
    /\ waiting' = FALSE
    /\ \/ wire # <<>> /\ a = Head(wire) /\ wire' = Tail(wire) /\ UNCHANGED noise
       \/ wire # <<>> /\ a = Silence /\ wire' \in {wire, Tail(wire)} /\ Disturb(1)
       \/ wire = <<>> /\ a = Silence /\ UNCHANGED <<wire, noise>>
    /\ UNCHANGED <<controller, resets>>

Frames == {wire[i] : i \in DOMAIN wire}
Answers == {Silence} \cup Frames

-----------------------------------------------------------------------------
(* The controller (fake_bootloader.c).                                     *)

(* The app resets into the bootloader, or refuses with the engine running. *)
EnterBootloader ==
    /\ UNCHANGED <<inactive, content, active>>
    /\ \/ mode = "app" /\ mode' = "idle" /\ Reply(Echo, 0)
       \/ mode = "app" /\ UNCHANGED mode /\ Reply(Refusal, 0)
       \/ mode # "app" /\ UNCHANGED mode /\ NoReply(0)

AnswerInfo ==
    /\ UNCHANGED controller
    /\ IF mode = "app" THEN NoReply(0) ELSE Reply(Info, 0)

Erase ==
    /\ UNCHANGED <<inactive, active>>
    /\ \/ /\ mode = "idle" /\ mode' = "erased" /\ Reply(Ack("erase"), 0)
          /\ content' = [c \in Chunk |-> "blank"]
       \/ mode # "idle" /\ UNCHANGED <<mode, content>> /\ Reply(Nak("state"), 0)

(* Programming may fail and say so, or leave a chunk that reads back wrong. *)
WriteChunk ==
    /\ UNCHANGED <<mode, inactive, active>>
    /\ \/ /\ mode = "erased"
          /\ \/ content' = [content EXCEPT ![off] = img] /\ Reply(DataAck(off), 0)
             \/ content' = [content EXCEPT ![off] = "bad"] /\ Reply(DataAck(off), 1)
             \/ UNCHANGED content /\ Reply(DataNak, 1)
       \/ mode # "erased" /\ UNCHANGED content /\ Reply(DataNak, 0)

(* The CRC the agent sends is that of the image it picked.                 *)
Complete == \A c \in Chunk : content[c] = img

Check ==
    /\ UNCHANGED <<inactive, content, active>>
    /\ \/ mode = "erased" /\ Complete /\ mode' = "verified" /\ Reply(Ack("verify"), 0)
       \/ mode = "erased" /\ ~Complete /\ UNCHANGED mode /\ Reply(Nak("crc"), 0)
       \/ mode # "erased" /\ UNCHANGED mode /\ Reply(Nak("state"), 0)

AnswerStatus == Reply(Status, 0) /\ UNCHANGED controller

(* The inactive slot becomes the active one and the controller resets.     *)
Commit ==
    /\ UNCHANGED <<inactive, content>>
    /\ \/ /\ mode = "verified" /\ mode' = "app" /\ Reply(Ack("commit"), 0)
          /\ active' = IF \A c \in Chunk : content[c] = inactive THEN "new" ELSE "broken"
       \/ mode # "verified" /\ UNCHANGED <<mode, active>> /\ Reply(Nak("state"), 0)

Discard ==
    /\ UNCHANGED <<inactive, content, active>>
    /\ mode' = IF mode = "app" THEN "app" ELSE "idle"
    /\ Reply(Ack("abort"), 0)

AnswerVersion == Reply(Reg2, 0) /\ UNCHANGED controller

(* Power dip, watchdog, or its own session timeout: back to the app.       *)
ControllerResets ==
    /\ mode # "app" /\ resets < MaxResets
    /\ mode' = "app" /\ resets' = resets + 1
    /\ UNCHANGED <<host, wire, inactive, content, active, noise>>

-----------------------------------------------------------------------------
(* The session (bl_session_flash).                                         *)

Goto(s) == step' = s /\ try' = 0 /\ UNCHANGED result
Finish(r) == step' = "done" /\ result' = r /\ UNCHANGED try
AbortWith(r) == step' = "abort" /\ result' = r /\ UNCHANGED try

AfterEnter ==
    \E a \in Answers :
        /\ Answer("enter", a)
        /\ IF a = Refusal THEN Finish("ENTER_REFUSED") ELSE Goto("info")
        /\ UNCHANGED <<heard, off, img>>

(* Mutant: the images of the two slots are swapped.                        *)
MutantAfterInfo ==
    \E a \in Answers :
        /\ Answer("info", a)
        /\ heard' = (heard \/ a # Silence)
        /\ \/ a.kind = "info" /\ img' \in Slots \ {a.arg} /\ Goto("erase")
           \/ /\ a.kind # "info" /\ try + 1 < InfoTries
              /\ try' = try + 1 /\ UNCHANGED <<step, img, result>>
           \/ /\ a.kind # "info" /\ try + 1 = InfoTries
              /\ Finish(IF heard' THEN "INFO_BAD" ELSE "NO_DEVICE") /\ UNCHANGED img
        /\ UNCHANGED off

AfterInfo ==
    \E a \in Answers :
        /\ Answer("info", a)
        /\ heard' = (heard \/ a # Silence)
        /\ \/ a.kind = "info" /\ img' = a.arg /\ Goto("erase")
           \/ /\ a.kind # "info" /\ try + 1 < InfoTries
              /\ try' = try + 1 /\ UNCHANGED <<step, img, result>>
           \/ /\ a.kind # "info" /\ try + 1 = InfoTries
              /\ Finish(IF heard' THEN "INFO_BAD" ELSE "NO_DEVICE") /\ UNCHANGED img
        /\ UNCHANGED off

AfterErase ==
    \E a \in Answers :
        /\ Answer("erase", a)
        /\ IF a = Ack("erase") THEN Goto("data") ELSE Finish("ERASE_FAIL")
        /\ off' = 1
        /\ UNCHANGED <<heard, img>>

(* Mutant: the loop runs once more when off = len.                         *)
MutantChunkPastEnd ==
    \E a \in Answers :
        /\ Answer("data", a)
        /\ \/ a = DataAck(off) /\ off <= Chunks /\ off' = off + 1 /\ Goto("data")
           \/ a # DataAck(off) /\ AbortWith("WRITE_FAIL") /\ UNCHANGED off
        /\ UNCHANGED <<heard, img>>

(* Mutant: any DATA ACK will do, whatever offset it echoes.                *)
MutantAfterData ==
    \E a \in Answers :
        /\ Answer("data", a)
        /\ \/ a.kind = "data" /\ off < Chunks /\ off' = off + 1 /\ Goto("data")
           \/ a.kind = "data" /\ off = Chunks /\ UNCHANGED off /\ Goto("verify")
           \/ /\ a.kind # "data" /\ try + 1 < DataTries
              /\ try' = try + 1 /\ UNCHANGED <<step, off, result>>
           \/ /\ a.kind # "data" /\ try + 1 = DataTries
              /\ AbortWith("WRITE_FAIL") /\ UNCHANGED off
        /\ UNCHANGED <<heard, img>>

AfterData ==
    \E a \in Answers :
        /\ Answer("data", a)
        /\ \/ a = DataAck(off) /\ off < Chunks /\ off' = off + 1 /\ Goto("data")
           \/ a = DataAck(off) /\ off = Chunks /\ UNCHANGED off /\ Goto("verify")
           \/ /\ a # DataAck(off) /\ try + 1 < DataTries
              /\ try' = try + 1 /\ UNCHANGED <<step, off, result>>
           \/ /\ a # DataAck(off) /\ try + 1 = DataTries
              /\ AbortWith("WRITE_FAIL") /\ UNCHANGED off
        /\ UNCHANGED <<heard, img>>

(* Mutant: BL_ERR_STATE can only mean "verified already".                  *)
MutantAfterVerify ==
    \E a \in Answers :
        /\ Answer("verify", a)
        /\ \/ a \in {Ack("verify"), Nak("state")} /\ Goto("commit")
           \/ a = Nak("crc") /\ AbortWith("VERIFY_CRC")
           \/ /\ a \notin {Ack("verify"), Nak("crc"), Nak("state")}
              /\ step' = "status" /\ UNCHANGED <<try, result>>
        /\ UNCHANGED <<heard, off, img>>

(* An attempt to verify that gave no verdict asks for the state.           *)
AfterVerify ==
    \E a \in Answers :
        /\ Answer("verify", a)
        /\ \/ a = Ack("verify") /\ Goto("commit")
           \/ a = Nak("crc") /\ AbortWith("VERIFY_CRC")
           \/ /\ a \notin {Ack("verify"), Nak("crc")}
              /\ step' = "status" /\ UNCHANGED <<try, result>>
        /\ UNCHANGED <<heard, off, img>>

Verified == [kind |-> "status", arg |-> "verified"]

(* Mutant: VERIFY is just tried again, as a chunk is.                      *)
MutantStateIgnored ==
    \E a \in Answers :
        /\ Answer("status", a)
        /\ \/ /\ try + 1 < VerifyTries
              /\ step' = "verify" /\ try' = try + 1 /\ UNCHANGED result
           \/ try + 1 = VerifyTries /\ AbortWith("WRITE_FAIL")
        /\ UNCHANGED <<heard, off, img>>

(* Mutant: the attempts to verify are not counted.                         *)
MutantAfterStatus ==
    \E a \in Answers :
        /\ Answer("status", a)
        /\ \/ a = Verified /\ Goto("commit")
           \/ a # Verified /\ step' = "verify" /\ UNCHANGED <<try, result>>
        /\ UNCHANGED <<heard, off, img>>

AfterStatus ==
    \E a \in Answers :
        /\ Answer("status", a)
        /\ \/ a = Verified /\ Goto("commit")
           \/ /\ a # Verified /\ try + 1 < VerifyTries
              /\ step' = "verify" /\ try' = try + 1 /\ UNCHANGED result
           \/ a # Verified /\ try + 1 = VerifyTries /\ AbortWith("WRITE_FAIL")
        /\ UNCHANGED <<heard, off, img>>

(* No answer is taken for success: the controller may have reset already.  *)
AfterCommit ==
    \E a \in Answers :
        /\ Answer("commit", a)
        /\ IF a.kind = "nak" THEN AbortWith("COMMIT_FAIL") ELSE Goto("version")
        /\ UNCHANGED <<heard, off, img>>

(* The version of the new image differs from that of the old one.          *)
AfterVersion ==
    \E a \in Answers :
        /\ Answer("version", a)
        /\ \/ a.kind = "reg2" /\ Finish(IF a.arg = "new" THEN "OK" ELSE "VERSION_MISMATCH")
           \/ /\ a.kind # "reg2" /\ try + 1 < VersionTries
              /\ try' = try + 1 /\ UNCHANGED <<step, result>>
           \/ a.kind # "reg2" /\ try + 1 = VersionTries /\ Finish("VERSION_MISMATCH")
        /\ UNCHANGED <<heard, off, img>>

AfterAbort ==
    \E a \in Answers :
        /\ Answer("abort", a)
        /\ step' = "done"
        /\ UNCHANGED <<try, heard, off, img, result>>

-----------------------------------------------------------------------------
Init ==
    /\ step = "enter" /\ waiting = FALSE /\ try = 0 /\ heard = FALSE
    /\ off = 1 /\ img = "none" /\ result = "none"
    /\ wire = <<>>
    /\ mode \in {"app", "idle", "erased", "verified"} /\ inactive \in Slots
    /\ content = [c \in Chunk |-> "old"] /\ active = "old"
    /\ noise = 0 /\ resets = 0

Sends ==
    \/ Send("enter", EnterBootloader)
    \/ Send("info", AnswerInfo)
    \/ Send("erase", Erase)
    \/ Send("data", WriteChunk)
    \/ Send("verify", Check)
    \/ Send("status", AnswerStatus)
    \/ Send("commit", Commit)
    \/ Send("version", AnswerVersion)
    \/ Send("abort", Discard)

Afters ==
    \/ AfterEnter \/ AfterInfo \/ AfterErase \/ AfterData \/ AfterVerify
    \/ AfterStatus \/ AfterCommit \/ AfterVersion \/ AfterAbort

Next == Sends \/ Afters \/ ControllerResets

Spec == Init /\ [][Next]_vars

(* bl_session_flash runs to its end without waiting for anything but the   *)
(* bus, and every exchange has its deadline.                               *)
FairSpec == Spec /\ WF_vars(Sends \/ Afters)

-----------------------------------------------------------------------------
(* Properties.                                                             *)

(* Every variable keeps its type; in particular no chunk past the end of   *)
(* the image is sent, and no retry loop runs over its budget.              *)
TypeOK ==
    /\ step \in {"enter", "info", "erase", "data", "verify", "status", "commit",
                 "version", "abort", "done"}
    /\ waiting \in BOOLEAN /\ heard \in BOOLEAN
    /\ try \in Nat
    /\ step = "info" => try < InfoTries
    /\ step = "data" => try < DataTries
    /\ step \in {"verify", "status"} => try < VerifyTries
    /\ step = "version" => try < VersionTries
    /\ off \in Chunk /\ img \in Slots \cup {"none"}
    /\ step \in {"erase", "data"} => img \in Slots
    /\ result \in {"none", "OK", "ENTER_REFUSED", "NO_DEVICE", "INFO_BAD", "ERASE_FAIL",
                   "WRITE_FAIL", "VERIFY_CRC", "COMMIT_FAIL", "VERSION_MISMATCH"}
    /\ wire \in Seq(Replies)
    /\ mode \in {"app", "idle", "erased", "verified"} /\ inactive \in Slots
    /\ content \in [Chunk -> Slots \cup {"blank", "old", "bad"}]
    /\ active \in {"old", "new", "broken"}
    /\ noise \in 0 .. MaxNoise /\ resets \in 0 .. MaxResets

(* When the agent asks the controller to verify, every chunk has been      *)
(* programmed since the erase, from the image built for that slot: no late *)
(* ACK of an earlier chunk was counted for one that got lost.              *)
Programmed ==
    step \in {"verify", "status"} =>
        img = inactive /\ \A c \in Chunk : content[c] \in {img, "bad"}

(* COMMIT is only sent for a slot that holds the complete image built for  *)
(* it, whichever answers to VERIFY and STATUS were lost or late.           *)
CommitVerified == step = "commit" /\ ~waiting => img = inactive /\ Complete

(* While the controller does not reset by itself, a session gives up on a  *)
(* chunk or on VERIFY only when each attempt met a disturbance of its own, *)
(* and reports a mismatch of a controller that did switch only when no     *)
(* reading of its version came through.                                    *)
RetriesSuffice ==
    /\ result = "WRITE_FAIL" /\ resets = 0 => noise >= DataTries \/ noise >= VerifyTries
    /\ result = "VERSION_MISMATCH" /\ active = "new" => noise >= VersionTries

(* The outcomes ControllerImage tells apart.  After COMMIT was sent, a     *)
(* failure says nothing of the image: the NAK of an earlier VERIFY may be  *)
(* taken for the answer to COMMIT, and the version may be unreadable.      *)
Outcome ==
    IF result = "none" THEN "none"
    ELSE IF result = "OK" THEN "ok"
    ELSE IF result \in {"COMMIT_FAIL", "VERSION_MISMATCH"} THEN "unknown"
    ELSE "kept"

Image == INSTANCE ControllerImage WITH outcome <- Outcome

(* The controller switches at most once, only to the complete image for    *)
(* the slot, never after the session decided its result; OK is reported of *)
(* a controller that switched and the early failures of one that did not.  *)
ImageSpec == Image!Spec

(* The session ends, even against a controller that went silent or keeps   *)
(* refusing: all its retry loops are bounded.                              *)
SessionEnds == <>(step = "done")
=============================================================================
