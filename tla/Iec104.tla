------------------------------- MODULE Iec104 -------------------------------
(***************************************************************************)
(* One session of Conpot's IEC 60870-5-104 server: the greenlet of         *)
(* IEC104Server.handle, which receives a frame and sends what its handler  *)
(* (a generator of class IEC104) yields; the greenlet of the timer T2; and *)
(* the timers T1, one per frame the station has to acknowledge.  The       *)
(* station is external.  Register values, wording and framing are left     *)
(* out.  So is time, of which one fact is used: the template has           *)
(* T_2 < T_1 < T_3, so T3 never fires while T2 or a T1 is running.         *)
(* Sequence numbers are the source's halved: it counts 0, 2 .. 65534.      *)
(***************************************************************************)
EXTENDS Integers, Sequences, SequencesExt

CONSTANTS
  Modulus,       \* sequence numbers; 32768 in the code
  W,             \* telegrams received before an acknowledgement; 8
  BufferMax,     \* frames kept while data transfer is stopped; 50
  MaxResponses,  \* most I frames one command is answered with
  MaxReceived, MaxMade, MaxSent  \* bounds: I frames in, made and sent

ASSUME IecAssumption ==
  /\ Modulus \in Nat \ {0} /\ W \in Nat \ {0}
  /\ {BufferMax, MaxResponses, MaxReceived, MaxMade, MaxSent} \subseteq Nat

VARIABLES
  pc,         \* of the session's greenlet
  todo,       \* what the handler has yet to yield
  ssn, rsn, ack, allowDT, telegrams,
  t2,         \* the timer T2 is running
  sentmsgs,   \* frames with a running T1; a list, whose order nothing reads
  buffer,     \* send_buffer
  seqOf,      \* SendSeq of each I frame made so far
  order,      \* history: the frames transmitted, in order
  acked,      \* history: transmissions the station has acknowledged
  accepted,   \* history: I frames accepted
  told        \* history: accepted, as of the last RecvSeq put into a frame

registers == <<ssn, rsn, ack, telegrams>>
histories == <<order, acked, accepted, told>>
vars == <<pc, todo, registers, allowDT, t2, sentmsgs, buffer, seqOf,
          histories>>

Live == pc \in {"recv", "sending"}
Made == Len(seqOf)

(* Frames to send: confirmations, S frames and I frames.                   *)
Con == [kind |-> "con", frame |-> 0]
S == [kind |-> "s", frame |-> 0]
I(f) == [kind |-> "i", frame |-> f]

(* frame_object_with_timer: transmission k of frame f, or a test frame.    *)
Watch(f, k) == [name |-> "i", frame |-> f, tx |-> k]
TestWatch == [name |-> "testfr", frame |-> 0, tx |-> 0]

Watches ==
  {TestWatch} \cup {Watch(f, k) : f \in 1..Made, k \in 1..Len(order)}

Init ==
  /\ pc = "recv"
  /\ ssn = 0 /\ rsn = 0 /\ ack = 0 /\ telegrams = 0
  /\ allowDT = FALSE /\ t2 = FALSE
  /\ todo = <<>> /\ sentmsgs = {} /\ buffer = <<>> /\ seqOf = <<>>
  /\ order = <<>> /\ acked = 0 /\ accepted = 0 /\ told = 0

-----------------------------------------------------------------------------
(* Acknowledgements                                                        *)

(* Wrong variant: the comparison off by one.                               *)
incrementPast(n) == (n + 1) % (Modulus + 1)

increment(n) == (n + 1) % Modulus

(* Wrong variant: the frame the station expects next counts as received.   *)
UnacknowledgedAfter(r) ==
  {e \in sentmsgs : e.name # "i" \/ seqOf[e.frame] > r}

(* The frames still watched once r is acknowledged: an entry is compared   *)
(* by the number its frame has now, which sending it again changes.        *)
Unacknowledged(r) ==
  {e \in sentmsgs : e.name # "i" \/ seqOf[e.frame] >= r}

WithoutTests == {e \in sentmsgs : e.name # "testfr"}

(* A handler that yields nothing leaves the greenlet receiving.            *)
Reply(items) ==
  /\ todo' = items
  /\ pc' = IF items = <<>> THEN "recv" ELSE "sending"

(* disconnect: the T1 timers are left running, in a greenlet that ends.    *)
Disconnect ==
  /\ pc' = "closed"
  /\ todo' = <<>>
  /\ t2' = FALSE
  /\ ssn' = 0 /\ rsn' = 0 /\ ack' = 0 /\ telegrams' = 0

-----------------------------------------------------------------------------
(* Frames from the station                                                 *)

(* Wrong variant: what was buffered stays in the buffer.                   *)
StartDTForgets ==
  /\ pc = "recv"
  /\ allowDT' = TRUE
  /\ Reply(<<Con>>)
  /\ UNCHANGED <<registers, t2, sentmsgs, buffer, seqOf, histories>>

StartDT ==
  /\ pc = "recv"
  /\ Len(order) + Len(buffer) <= MaxSent
  /\ allowDT' = TRUE
  /\ Reply(<<Con>> \o [j \in 1..Len(buffer) |-> I(buffer[j])])
  /\ UNCHANGED <<registers, t2, sentmsgs, buffer, seqOf, histories>>

StopDT ==
  /\ pc = "recv"
  /\ allowDT' = FALSE
  /\ Reply(<<S, Con>>)
  /\ UNCHANGED <<registers, t2, sentmsgs, buffer, seqOf, histories>>

TestFrAct ==
  /\ pc = "recv"
  /\ sentmsgs' = WithoutTests
  /\ Reply(<<Con>>)
  /\ UNCHANGED <<registers, allowDT, t2, buffer, seqOf, histories>>

TestFrCon ==
  /\ pc = "recv"
  /\ sentmsgs' = WithoutTests
  /\ UNCHANGED <<pc, todo, registers, allowDT, t2, buffer, seqOf, histories>>

(* An S frame that acknowledges the first n transmissions.                 *)
SFrame(n) ==
  LET r == n % Modulus
  IN /\ pc = "recv"
     /\ acked' = n
     /\ ack' = IF r <= ssn THEN r ELSE ack
     /\ sentmsgs' = Unacknowledged(ack')
     /\ UNCHANGED <<pc, todo, ssn, rsn, telegrams, allowDT, t2, buffer, seqOf,
                    order, accepted, told>>

(* The I frames that answer a command; they are made one by one as the     *)
(* generator runs.                                                         *)
Answers(k) == [j \in 1..k |-> I(Made + j)]

(* At w telegrams send_104frame's bytes are returned where the server      *)
(* expects a list of frames: it sends the first of the bytes, an int, and  *)
(* the TypeError ends the greenlet, T2 killed and nothing sent.            *)
WindowFull ==
  /\ telegrams + 1 >= W
  /\ pc' = "failed"
  /\ telegrams' = 0
  /\ t2' = FALSE
  /\ UNCHANGED todo

BelowWindow(k) ==
  /\ telegrams + 1 < W
  /\ telegrams' = telegrams + 1
  /\ t2' = TRUE
  /\ Reply(Answers(k))

(* An I frame with the expected number that acknowledges n transmissions   *)
(* and is answered with k I frames.                                        *)
IFrame(n, k) ==
  /\ pc = "recv"
  /\ accepted < MaxReceived
  /\ Made + k <= MaxMade
  /\ Len(order) + k <= MaxSent
  /\ accepted' = accepted + 1
  /\ acked' = n
  /\ rsn' = increment(rsn)
  /\ sentmsgs' = Unacknowledged(n % Modulus)
  /\ WindowFull \/ BelowWindow(k)
  /\ UNCHANGED <<ssn, ack, allowDT, buffer, seqOf, order, told>>

(* One whose length is wrong is logged, neither counted nor numbered, and  *)
(* still answered.                                                         *)
MalformedIFrame(k) ==
  /\ pc = "recv"
  /\ Made + k <= MaxMade
  /\ Len(order) + k <= MaxSent
  /\ t2' = TRUE
  /\ Reply(Answers(k))
  /\ UNCHANGED <<registers, allowDT, sentmsgs, buffer, seqOf, histories>>

(* One with another number: disconnect is called where its result was to   *)
(* be scheduled, so the S frame for the last correct one is never sent.    *)
SequenceError ==
  /\ pc = "recv"
  /\ accepted < MaxReceived
  /\ Disconnect
  /\ UNCHANGED <<allowDT, sentmsgs, buffer, seqOf, histories>>

-----------------------------------------------------------------------------
(* Sending: send_104frame for the next frame, and the socket               *)

(* Wrong variant: the frame is sent with the RecvSeq it was made with.     *)
AcknowledgeUnset ==
  /\ t2' = FALSE
  /\ telegrams' = 0
  /\ UNCHANGED told

(* What every frame that carries rsn does on its way out.                  *)
Acknowledge ==
  /\ t2' = FALSE
  /\ telegrams' = 0
  /\ told' = accepted

Numbered(f, n) == IF f > Made THEN Append(seqOf, n)
                  ELSE [seqOf EXCEPT ![f] = n]

SendConfirmation ==
  UNCHANGED <<registers, t2, sentmsgs, buffer, seqOf, histories>>

SendSFrame ==
  /\ Acknowledge
  /\ UNCHANGED <<ssn, rsn, ack, sentmsgs, buffer, seqOf, order, acked,
                 accepted>>

Transmit(f) ==
  /\ allowDT
  /\ Acknowledge
  /\ seqOf' = Numbered(f, ssn)
  /\ ssn' = increment(ssn)
  /\ order' = Append(order, f)
  /\ sentmsgs' = sentmsgs \cup {Watch(f, Len(order) + 1)}
  /\ UNCHANGED <<rsn, ack, buffer, acked, accepted>>

(* Wrong variant: T2 is killed before it is known whether a frame leaves.  *)
BufferKillsT2(f) ==
  /\ ~allowDT
  /\ t2' = FALSE
  /\ seqOf' = Numbered(f, 0)
  /\ buffer' = IF Len(buffer) < BufferMax THEN Append(buffer, f) ELSE buffer
  /\ UNCHANGED <<registers, sentmsgs, histories>>

(* While data transfer is stopped a frame waits in the buffer, or is lost. *)
Buffer(f) ==
  /\ ~allowDT
  /\ seqOf' = Numbered(f, 0)
  /\ buffer' = IF Len(buffer) < BufferMax THEN Append(buffer, f) ELSE buffer
  /\ UNCHANGED <<registers, t2, sentmsgs, histories>>

SendNext ==
  LET item == Head(todo)
  IN /\ pc = "sending"
     /\ todo' = Tail(todo)
     /\ pc' = IF Len(todo) = 1 THEN "recv" ELSE "sending"
     /\ \/ item.kind = "con" /\ SendConfirmation
        \/ item.kind = "s" /\ SendSFrame
        \/ item.kind = "i" /\ (Transmit(item.frame) \/ Buffer(item.frame))
     /\ UNCHANGED allowDT

(* The station is gone, or the socket cannot be written for T_0: an error  *)
(* disconnects, a timeout only ends the greenlet.                          *)
SendFails ==
  /\ pc = "sending"
  /\ Disconnect
  /\ UNCHANGED <<allowDT, sentmsgs, buffer, seqOf, histories>>

SendTimesOut ==
  /\ pc = "sending"
  /\ pc' = "failed"
  /\ UNCHANGED <<todo, registers, allowDT, t2, sentmsgs, buffer, seqOf,
                 histories>>

-----------------------------------------------------------------------------
(* Timers, and the end of the session                                      *)

(* send_frame_imm, in a greenlet of its own: also while the other one is   *)
(* blocked in send.  Its S frame is lost if the socket cannot be written   *)
(* at once, for the greenlet killed itself before; it is told all the same.*)
T2Fires ==
  /\ Live /\ t2
  /\ Acknowledge
  /\ UNCHANGED <<pc, todo, ssn, rsn, ack, allowDT, sentmsgs, buffer, seqOf,
                 order, acked, accepted>>

T1Fires ==
  /\ Live
  /\ sentmsgs # {}
  /\ Disconnect
  /\ UNCHANGED <<allowDT, sentmsgs, buffer, seqOf, histories>>

T3Fires ==
  /\ pc = "recv" /\ ~t2 /\ sentmsgs = {}
  /\ sentmsgs' = {TestWatch}
  /\ UNCHANGED <<pc, todo, registers, allowDT, t2, buffer, seqOf, histories>>

StationCloses ==
  /\ pc = "recv"
  /\ Disconnect
  /\ UNCHANGED <<allowDT, sentmsgs, buffer, seqOf, histories>>

UFrame == StartDT \/ StopDT \/ TestFrAct \/ TestFrCon

(* The station acknowledges in order, and only what it was sent.           *)
Acks == acked .. Len(order)

Next ==
  \/ UFrame
  \/ \E n \in Acks : SFrame(n) \/ \E k \in 0..MaxResponses : IFrame(n, k)
  \/ \E k \in 0..MaxResponses : MalformedIFrame(k)
  \/ SequenceError
  \/ SendNext \/ SendFails \/ SendTimesOut
  \/ T1Fires \/ T2Fires \/ T3Fires
  \/ StationCloses

(* gevent runs a greenlet that can write, and a timer that is due.         *)
Fairness == WF_vars(SendNext) /\ WF_vars(T2Fires)

Spec == Init /\ [][Next]_vars
FairSpec == Spec /\ Fairness

-----------------------------------------------------------------------------
(* Properties                                                              *)

(* What the handler has yet to yield is known or made next: frames sent    *)
(* again, or answers in the order of their making.                         *)
TodoOK ==
  /\ todo \in Seq([kind : {"con", "s", "i"}, frame : Nat])
  /\ \/ \A j \in DOMAIN todo : todo[j].kind = "i" => todo[j].frame \in 1..Made
     \/ \A j \in DOMAIN todo : todo[j] = I(Made + j)

(* Types of the variables; in particular the numbers stay in their range.  *)
TypeOK ==
  /\ pc \in {"recv", "sending", "closed", "failed"}
  /\ pc = "sending" => todo # <<>>
  /\ TodoOK
  /\ ssn \in 0..(Modulus - 1) /\ rsn \in 0..(Modulus - 1)
  /\ ack \in 0..(Modulus - 1)
  /\ sentmsgs \subseteq Watches
  /\ telegrams \in Nat /\ allowDT \in BOOLEAN /\ t2 \in BOOLEAN
  /\ seqOf \in Seq(0..(Modulus - 1))
  /\ buffer \in Seq(1..Made) /\ Len(buffer) <= BufferMax
  /\ order \in Seq(1..Made)
  /\ acked \in 0..Len(order)
  /\ accepted \in Nat /\ told \in 0..accepted

(* While the session lives, telegram_count is the number of frames whose   *)
(* acceptance no frame to the station says yet, and if there is one the    *)
(* timer that will make that frame is running: neither a stopped data      *)
(* transfer, which buffers the answer, nor a send that interleaves with T2 *)
(* forgets an acknowledgement.                                             *)
AckIsPending ==
  Live => /\ telegrams = accepted - told
          /\ told # accepted => t2

(* T1 watches exactly what the station owes: every transmission it has not *)
(* acknowledged has a timer, and no acknowledged one keeps a timer that    *)
(* would end the session.  Not so once the numbers have wrapped, for they  *)
(* are compared as integers, nor after a buffered frame was sent a second  *)
(* time, which renumbers its first entry.                                  *)
WatchedAreOwed ==
  Live /\ Len(order) < Modulus /\ IsInjective(order) =>
    {e.tx : e \in {e \in sentmsgs : e.name = "i"}}
      = (acked + 1) .. Len(order)

(* Answers reach the wire in the order they were made, data transfer       *)
(* stopped and started in between: what is made before a transmitted frame *)
(* was transmitted before it or was lost to a full buffer.                 *)
AnswersInOrder ==
  LET Kept == Range(buffer) \cup Range(order)
  IN /\ \A j \in DOMAIN order : \A f \in Kept :
          f < order[j] => \E i \in 1..(j - 1) : order[i] = f
     /\ Live /\ ~(1..Made \subseteq Kept) => Len(buffer) = BufferMax

(* Every accepted I frame is acknowledged by a frame made for the station  *)
(* in the end, by T2 if by nothing else, or the session ends.              *)
EventuallyAcknowledged ==
  \A n \in 1..MaxReceived : accepted >= n ~> (told >= n \/ ~Live)

(* "Send S_Frame at w telegrams or (re)start timer T2"                     *)
(* (IEC104.py:238): the w-th telegram not acknowledged yet leaves an       *)
(* S frame to be sent.                                                     *)
AckAtW ==
  [][accepted' # accepted /\ accepted' - told = W => todo' = <<S>>]_vars
=============================================================================
