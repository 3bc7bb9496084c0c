------------------------------ MODULE TcpRecv ------------------------------
(***************************************************************************)
(* The receive path of one TCP link: the completion of its only WSARecv    *)
(* (tcp_dispatch_io_recv), the parsing of logic packets                    *)
(* (tcp_prase_logic_packet), the assembly of packets larger than the       *)
(* receive buffer (ncb_mark_lb, tcp_lb_assemble, ncb_unmark_lb), the next  *)
(* request (asio_tcp_recv) and the end of the link by the peer, by an      *)
(* error or by tcp_destroy in another thread.                              *)
(*                                                                         *)
(* A byte is the number of its position in the peer's stream, so a buffer  *)
(* shows which bytes it holds; the parser of the template sees a header    *)
(* only where the bytes are the header of a message.  One step is one      *)
(* return of the system or one turn of the parsing loop.                   *)
(***************************************************************************)
EXTENDS Integers, Sequences, SequencesExt

CONSTANTS Header,      \* tcp_tst_.cb_ of a link with a template
          Buffer,      \* TCP_RECV_BUFFER_SIZE
          MaxUser,     \* TCP_MAXIMUM_PACKET_SIZE
          Streams,     \* the sequences of user data sizes a peer may send
          RawBytes     \* what a peer may send to a link without a template

ASSUME TcpRecvAssumption ==
  /\ Header \in 1..Buffer
  /\ Buffer \in Nat
  /\ MaxUser \in Nat
  /\ RawBytes \in Nat
  /\ \A s \in Streams : s \in Seq(Int)

VARIABLES
  cb,         \* tcp_tst_.cb_: Header, or 0 without a template
  sizes,      \* the peer's messages: the user data size each header announces
  fully,      \* attr & LINKATTR_TCP_FULLY_RECEIVE
  stat,       \* of the link's object: "normal", "closewait" or "unloaded"
  refs,       \* who holds a reference: "io" and "user"
  pc,         \* of the I/O thread
  request,    \* the receive packet: "posted", "held" or "freed"
  rx,         \* how many bytes of the stream the system delivered
  buf,        \* ori_buffer_, byte offset -> stream position (0: never written)
  irp,        \* irp_ - ori_buffer_
  size_for_req,
  size_for_translation,
  analyzed_offset,
  useful,     \* current_usefule_size of the parsing loop
  offset,     \* current_parse_offset
  lb_data,    \* the large block, as far as it is copied (<<>>: NULL)
  lb_length,
  out         \* history: the bytes of each EVT_RECEIVEDATA

peervars == <<cb, sizes, fully>>
linkvars == <<stat, refs>>
iovars == <<irp, size_for_req, analyzed_offset>>
loopvars == <<size_for_translation, useful, offset>>
lbvars == <<lb_data, lb_length>>
vars == <<peervars, linkvars, pc, request, rx, buf, iovars, loopvars, lbvars, out>>

\* The peer's stream, and what the receive path promises about it.  A link
\* without a template frames nothing.
Frames == INSTANCE FrameStream
  WITH arrived <- IF cb = 0 THEN 0 ELSE rx,
       delivered <- IF cb = 0 THEN 0 ELSE Len(out),
       link <- IF stat = "normal" THEN "up" ELSE "down"

Total == IF cb = 0 THEN RawBytes ELSE Frames!Total

\* Positions m+1 .. m+n of the stream
Positions(m, n) == [i \in 1..n |-> m + i]

\* n bytes of the buffer from offset o
Bytes(o, n) == [i \in 1..n |-> buf[o + i - 1]]

\* The template's parser: the size announced by a header, and a refusal for
\* any other bytes.
parser(bytes) ==
  LET found == {k \in 1..Len(sizes) : bytes = Positions(Frames!Start[k], Header)}
  IN  IF found = {} THEN -1 ELSE sizes[CHOOSE k \in found : TRUE]

\* memmove(ori_buffer_, ori_buffer_ + o, n)
memmove(o, n) ==
  buf' = [i \in 0..(Buffer - 1) |-> IF i < n THEN buf[o + i] ELSE buf[i]]

Init ==
  /\ \/ cb = 0 /\ sizes = <<>>
     \/ cb = Header /\ sizes \in Streams
  /\ fully \in BOOLEAN
  /\ stat = "normal" /\ refs = {}
  /\ pc = "waiting"
  /\ request = "posted"
  /\ rx = 0
  /\ buf = [i \in 0..(Buffer - 1) |-> 0]
  /\ irp = 0 /\ size_for_req = Buffer /\ analyzed_offset = 0
  /\ size_for_translation = 0 /\ useful = 0 /\ offset = 0
  /\ lb_data = <<>> /\ lb_length = 0
  /\ out = <<>>

-----------------------------------------------------------------------------
(* The object table (external: object.h)                                   *)

ncb_lb_marked == lb_data # <<>> /\ lb_length > 0

ncb_unmark_lb == lb_data' = <<>> /\ lb_length' = 0

\* objclos, then objdefr of a reference that `who' may hold: the object is
\* unloaded, and a large block freed with it, when no reference is left.
objclos(who) ==
  /\ refs' = refs \ {who}
  /\ \/ stat # "unloaded" /\ refs' = {} /\ stat' = "unloaded" /\ ncb_unmark_lb
     \/ stat # "unloaded" /\ refs' # {} /\ stat' = "closewait" /\ UNCHANGED lbvars
     \/ stat = "unloaded" /\ UNCHANGED <<stat, lbvars>>

-----------------------------------------------------------------------------
(* tcp_dispatch_io_recv                                                    *)

Completes == pc = "waiting" /\ request = "posted"

\* n bytes arrived and the link can be referenced.
Received(n) ==
  /\ Completes
  /\ stat = "normal"
  /\ rx + n <= Total
  /\ request' = "held"
  /\ refs' = refs \cup {"io"}
  /\ buf' = [i \in 0..(Buffer - 1) |->
               IF i \in irp..(irp + n - 1) THEN rx + 1 + i - irp ELSE buf[i]]
  /\ rx' = rx + n
  /\ size_for_translation' = n
  /\ useful' = analyzed_offset + n
  /\ offset' = 0
  /\ pc' = IF ncb_lb_marked THEN "lb" ELSE "parse"
  /\ UNCHANGED <<peervars, stat, iovars, lbvars, out>>

\* The completion of a link that cannot be referenced ends with the packet so.
NoEntryWith(state) ==
  /\ Completes
  /\ stat # "normal"
  /\ request' = state
  /\ pc' = "over"
  /\ UNCHANGED <<peervars, linkvars, rx, buf, iovars, loopvars, lbvars, out>>

\* Mutant of ReceivedNoEntry: the packet of a link that is gone is not freed.
ReceivedNoEntryKept == NoEntryWith("held")

\* The link cannot be referenced any more: the completion, aborted or not,
\* only frees the packet.
ReceivedNoEntry == NoEntryWith("freed")

\* Zero bytes, or a failed status: tcp_shutdown_by_packet.
Disconnected ==
  /\ Completes
  /\ stat = "normal"
  /\ objclos("io")
  /\ request' = "freed"
  /\ pc' = "over"
  /\ UNCHANGED <<peervars, rx, buf, iovars, loopvars, out>>

-----------------------------------------------------------------------------
(* tcp_lb_assemble                                                         *)

\* What the large block still needs.
lb_acquire_size ==
  parser(SubSeq(lb_data, 1, Header)) + Header - Len(lb_data)

\* Everything received goes into the block, and the request is posted again
\* as it was.
LbPart ==
  /\ pc = "lb"
  /\ size_for_translation < lb_acquire_size
  /\ lb_data' = lb_data \o Bytes(0, size_for_translation)
  /\ pc' = "post"
  /\ UNCHANGED <<peervars, linkvars, request, rx, buf, iovars, loopvars, lb_length, out>>

\* The block is full: it is delivered without its header and released; what
\* follows it is moved to the front of the buffer and parsed.
LbFilled ==
  /\ pc = "lb"
  /\ size_for_translation >= lb_acquire_size
  /\ LET block == lb_data \o Bytes(0, lb_acquire_size)
         rest == size_for_translation - lb_acquire_size
     IN  /\ out' = Append(out, SubSeq(block, Header + 1, Len(block)))
         /\ memmove(lb_acquire_size, rest)
         /\ size_for_translation' = (IF rest # 0 THEN rest ELSE size_for_translation)
         /\ useful' = analyzed_offset + rest
         /\ pc' = IF rest # 0 THEN "parse" ELSE "post"
  /\ ncb_unmark_lb
  /\ UNCHANGED <<peervars, linkvars, request, rx, iovars, offset>>

-----------------------------------------------------------------------------
(* tcp_prase_logic_packet, one turn of its loop per step                   *)

\* Mutant of EndParse: the request asks for the whole buffer again.
EndParseWhole(n) ==
  analyzed_offset' = n /\ irp' = n /\ size_for_req' = Buffer /\ pc' = "post"

\* The parsing ends with n bytes left over at the front of the buffer, and
\* the next request is adjusted to what is left of the buffer.
EndParse(n) ==
  analyzed_offset' = n /\ irp' = n /\ size_for_req' = Buffer - n /\ pc' = "post"

user_size == parser(Bytes(offset, Header))

\* The loop is at a header, at a packet it accepts, and at one that it keeps
\* in the buffer.
AtHeader == pc = "parse" /\ cb > 0 /\ useful >= cb
Accepted == AtHeader /\ user_size \in 0..MaxUser
InBuffer == Accepted /\ user_size + cb <= Buffer
Large == Accepted /\ user_size + cb > Buffer

\* No template: the whole of what was received is one event.
ParseRaw ==
  /\ pc = "parse"
  /\ cb = 0
  /\ out' = Append(out, Bytes(0, useful))
  /\ EndParse(0)
  /\ UNCHANGED <<peervars, linkvars, request, rx, buf, loopvars, lbvars>>

\* The loop ends with the bytes from o left over.
ParseRemainderFrom(o) ==
  /\ \/ pc = "parse" /\ cb > 0 /\ useful < cb
     \/ InBuffer /\ useful < user_size + cb
  /\ memmove(o, useful)
  /\ EndParse(useful)
  /\ UNCHANGED <<peervars, linkvars, request, rx, loopvars, lbvars, out>>

\* Mutant of ParseRemainder: the remainder is not moved to the front.
ParseRemainderInPlace == ParseRemainderFrom(0)

\* The header, or the packet, is not complete: the remainder moves to the front.
ParseRemainder == ParseRemainderFrom(offset)

ParseRefusedAbove(limit) ==
  /\ AtHeader
  /\ user_size \notin 0..limit
  /\ pc' = "fail"
  /\ UNCHANGED <<peervars, linkvars, request, rx, buf, iovars, loopvars, lbvars, out>>

\* Mutant of ParseRefused: the largest size allowed is refused as well.
ParseRefusedLargest == ParseRefusedAbove(MaxUser - 1)

\* The parser fails, or announces too much or a negative size.
ParseRefused == ParseRefusedAbove(MaxUser)

\* Larger than the buffer: ncb_mark_lb copies what is there.
ParseLarge ==
  /\ Large
  /\ user_size + cb >= useful
  /\ lb_length' = user_size + cb
  /\ lb_data' = Bytes(offset, useful)
  /\ EndParse(0)
  /\ UNCHANGED <<peervars, linkvars, request, rx, buf, loopvars, out>>

\* ncb_mark_lb finds no memory.
ParseLargeNoMemory ==
  /\ Large
  /\ lb_length' = user_size + cb
  /\ pc' = "fail"
  /\ UNCHANGED <<peervars, linkvars, request, rx, buf, iovars, loopvars, lb_data, out>>

\* The complete packet in front of the loop is given to the callback.
Deliver(bytes) ==
  /\ InBuffer
  /\ useful >= user_size + cb
  /\ out' = Append(out, bytes)
  /\ useful' = useful - (user_size + cb)
  /\ UNCHANGED <<peervars, linkvars, request, rx, size_for_translation, lbvars>>

NextTurn == offset' = offset + user_size + cb /\ UNCHANGED <<pc, buf, iovars>>

User == IF fully THEN Bytes(offset, user_size + cb) ELSE Bytes(offset + cb, user_size)

\* Mutant of ParseDelivered: the header is not skipped in what is delivered.
ParseDeliveredHeader == Deliver(Bytes(offset, user_size)) /\ NextTurn

\* Mutant of ParseDelivered: the loop ends behind the first message.
ParseDeliveredOnce ==
  /\ Deliver(User)
  /\ memmove(offset + user_size + cb, useful')
  /\ EndParse(useful')
  /\ UNCHANGED offset

\* Mutant of ParseDelivered: the loop does not step over an empty message.
ParseDeliveredSpins ==
  /\ InBuffer
  /\ IF user_size > 0 THEN Deliver(User) /\ NextTurn ELSE UNCHANGED vars

\* A complete packet: EVT_RECEIVEDATA, then the next turn of the loop.
ParseDelivered == Deliver(User) /\ NextTurn

-----------------------------------------------------------------------------
(* The end of tcp_dispatch_io_recv                                         *)

\* asio_tcp_recv: the system takes the request, with the size asked for.
PostRecv ==
  /\ pc = "post"
  /\ stat = "normal"
  /\ request' = "posted"
  /\ pc' = "exit"
  /\ UNCHANGED <<peervars, linkvars, rx, buf, iovars, loopvars, lbvars, out>>

\* The object cannot be referenced, or WSARecv fails.
PostFailed ==
  /\ pc = "post"
  /\ pc' = "fail"
  /\ UNCHANGED <<peervars, linkvars, request, rx, buf, iovars, loopvars, lbvars, out>>

\* retval < 0 : objclos, freepkt, objdefr
Fail ==
  /\ pc = "fail"
  /\ objclos("io")
  /\ request' = "freed"
  /\ pc' = "over"
  /\ UNCHANGED <<peervars, rx, buf, iovars, loopvars, out>>

\* objdefr
Exit ==
  /\ pc = "exit"
  /\ \/ stat # "normal" /\ objclos("io")
     \/ stat = "normal" /\ refs' = refs \ {"io"} /\ UNCHANGED <<stat, lbvars>>
  /\ pc' = "waiting"
  /\ UNCHANGED <<peervars, request, rx, buf, iovars, loopvars, out>>

-----------------------------------------------------------------------------
(* tcp_destroy by another thread, or from inside the callback              *)

\* objreff
tcp_destroy ==
  /\ stat = "normal"
  /\ stat' = "closewait"
  /\ refs' = refs \cup {"user"}
  /\ UNCHANGED <<peervars, pc, request, rx, buf, iovars, loopvars, lbvars, out>>

\* ioclose, objdefr
DestroyReturns ==
  /\ "user" \in refs
  /\ objclos("user")
  /\ UNCHANGED <<peervars, pc, request, rx, buf, iovars, loopvars, out>>

\* Nothing is left of the link.
Gone ==
  /\ stat = "unloaded"
  /\ pc = "over"
  /\ UNCHANGED vars

IoStep ==
  \/ LbPart \/ LbFilled
  \/ ParseRaw \/ ParseRemainder \/ ParseRefused \/ ParseLarge
  \/ ParseLargeNoMemory \/ ParseDelivered
  \/ PostRecv \/ PostFailed \/ Fail \/ Exit

Next ==
  \/ \E n \in 1..size_for_req : Received(n)
  \/ Disconnected \/ ReceivedNoEntry
  \/ IoStep
  \/ tcp_destroy \/ DestroyReturns
  \/ Gone

Spec == Init /\ [][Next]_vars

\* Threads run on, the system completes the request of a closed socket, and
\* the peer goes on sending while the link is open.
Fairness ==
  /\ WF_vars(IoStep)
  /\ WF_vars(ReceivedNoEntry)
  /\ WF_vars(DestroyReturns)
  /\ WF_vars(\E n \in 1..size_for_req : Received(n))

FairSpec == Spec /\ Fairness
-----------------------------------------------------------------------------
(* Properties                                                              *)

TypeOK ==
  /\ cb \in {0, Header}
  /\ sizes \in Streams \cup {<<>>}
  /\ fully \in BOOLEAN
  /\ stat \in {"normal", "closewait", "unloaded"}
  /\ refs \subseteq {"io", "user"}
  /\ pc \in {"waiting", "lb", "parse", "post", "fail", "exit", "over"}
  /\ request \in {"posted", "held", "freed"}
  /\ rx \in 0..Total
  /\ buf \in [0..(Buffer - 1) -> Nat]
  /\ {irp, size_for_req, analyzed_offset} \subseteq 0..Buffer
  /\ {size_for_translation, useful, offset} \subseteq 0..Buffer
  /\ lb_data \in Seq(Nat)
  /\ lb_length \in Nat
  /\ out \in Seq(Seq(Nat))

\* What the callback must see of message k: its user data, preceded by the
\* header when the link asks for it and the message is not a large block.
Payload(k) ==
  IF fully /\ sizes[k] + Header <= Buffer
  THEN Positions(Frames!Start[k], sizes[k] + Header)
  ELSE Positions(Frames!Start[k] + Header, sizes[k])

\* Event k carries exactly the bytes of message k, however the stream was cut
\* into receives, whether it was parsed in place or assembled as a large block;
\* without a template the events together are the stream.
DeliveredIntact ==
  IF cb = 0
  THEN request = "posted" => FlattenSeq(out) = Positions(0, rx)
  ELSE Len(out) <= Len(sizes) /\ \A k \in 1..Len(out) : out[k] = Payload(k)

\* While a request is pending, the bytes received after the last delivered
\* message are all kept, once and in order: in the large block, or at the
\* front of the buffer up to the offset of the request.
BytesKept ==
  (cb > 0 /\ request = "posted" /\ stat = "normal") =>
    LET from == Frames!Start[Len(out) + 1]
    IN  lb_data \o Bytes(0, irp) = Positions(from, rx - from)

\* A request asks for the rest of the buffer behind the kept bytes, never for
\* zero bytes (its completion would look like the end of the connection) and
\* never beyond the end.  The large block uses the whole buffer, and the two
\* assertions of tcp_lb_assemble hold: a copy ends within the block, which is
\* as long as the message it was made for and not full yet.
BuffersFit ==
  /\ request = "posted" =>
       /\ size_for_req > 0
       /\ irp + size_for_req = Buffer
       /\ analyzed_offset = irp
       /\ ncb_lb_marked => irp = 0
  /\ pc = "lb" =>
       /\ lb_acquire_size > 0
       /\ Len(lb_data) + lb_acquire_size = lb_length

\* The link is refused by the parser only for a message that is really bad:
\* the loop never looks for a header at the wrong place.
RefusesOnlyBad ==
  [][ParseRefused => ~Frames!Good(Len(out) + 1)]_vars

\* Whenever a receive is pending, no message is withheld: all that arrived
\* completely, behind good ones only, were given to the callback, also those
\* that came in the same receive as the end of a large block.
NothingWithheld ==
  (cb > 0 /\ request = "posted") =>
    \A k \in 1..Len(sizes) :
      (Frames!Start[k + 1] <= rx /\ \A j \in 1..k : Frames!Good(j)) => k <= Len(out)

\* How many steps the dispatch of one completion can still make: the turns of
\* the parsing loop are bounded by the bytes in front of it.
TurnsLeft ==
  CASE pc = "lb" -> Buffer + 4
    [] pc = "parse" -> useful + 3
    [] pc = "post" -> 2
    [] pc \in {"fail", "exit"} -> 1
    [] OTHER -> 0

\* Every turn of the parsing loop, and every other step of a dispatch, brings
\* the I/O thread nearer to the end of the dispatch, for every stream, also
\* for messages without user data.
DispatchEnds == [][IoStep => TurnsLeft' < TurnsLeft]_vars

\* The receive path implements the stream of framed messages.
ImplementsFrames == Frames!FSpec

\* However the link ends, also while its thread is in the parsing loop, the
\* packet, the block and the object are released, although the pending request
\* holds no reference.
MemoryReturned ==
  (stat # "normal") ~> (stat = "unloaded" /\ request = "freed" /\ lb_data = <<>>)

\* As long as the link is open and the peer sends, the parsing loop ends for
\* every message, also for one without user data, and every message, or every
\* byte, is delivered.
StreamConsumed ==
  <>(stat # "normal" \/ (IF cb = 0 THEN Len(FlattenSeq(out)) = RawBytes
                         ELSE Len(out) = Len(sizes)))
-----------------------------------------------------------------------------
(* The inductive invariant behind the theorems of TcpRecvProofs            *)

\* The message to be delivered next, and where it begins in the stream.
Due == Len(out) + 1
From == Frames!Start[Due]

\* The I/O thread holds the packet and a reference while it dispatches; an
\* unloaded link has no references.
References ==
  /\ pc \in {"lb", "parse", "post", "fail"} => request = "held"
  /\ pc \in {"waiting", "exit"} => request = "posted"
  /\ pc = "over" => request = "freed"
  /\ "io" \in refs <=> pc \in {"lb", "parse", "post", "fail", "exit"}
  /\ stat = "unloaded" => refs = {}

\* The next request fills the buffer behind what is kept in it; while a large
\* block is assembled nothing is.
Requesting ==
  /\ irp + size_for_req = Buffer
  /\ size_for_req > 0
  /\ analyzed_offset = irp
  /\ lb_data # <<>> => irp = 0

\* Each event was a good message, in order.
Delivered ==
  cb > 0 =>
    /\ Len(out) <= Len(sizes)
    /\ \A k \in 1..Len(out) : Frames!Good(k) /\ out[k] = Payload(k)

\* The large block holds the first bytes of the message that is due.
Assembling ==
  lb_data # <<>> =>
    /\ cb > 0
    /\ Due <= Len(sizes)
    /\ Frames!Good(Due)
    /\ lb_length = sizes[Due] + Header
    /\ lb_length > Buffer
    /\ Len(lb_data) \in Header..(lb_length - 1)
    /\ lb_data = Positions(From, Len(lb_data))

\* What was received goes on where the large block ends ...
Filling ==
  pc = "lb" =>
    /\ lb_data # <<>>
    /\ offset = 0
    /\ rx = From + Len(lb_data) + size_for_translation
    /\ Bytes(0, size_for_translation)
         = Positions(From + Len(lb_data), size_for_translation)

\* ... or the parsing loop is where the message that is due begins.
Parsing ==
  pc = "parse" =>
    /\ lb_data = <<>>
    /\ offset + useful <= Buffer
    /\ cb > 0 => /\ rx = From + useful
                 /\ Bytes(offset, useful) = Positions(From, useful)

\* When the loop has ended the message that is due is not complete, and what
\* there is of it is kept.
Resting ==
  (cb > 0 /\ pc \in {"post", "exit", "waiting"}) =>
    /\ Due <= Len(sizes) => ~Frames!Complete(Due) /\ ~Frames!Refused(Due)
    /\ stat # "unloaded" =>
         /\ rx = From + Len(lb_data) + irp
         /\ Bytes(0, irp) = Positions(From + Len(lb_data), irp)

\* A link without a template hands on everything.
Raw ==
  cb = 0 =>
    /\ sizes = <<>>
    /\ irp = 0
    /\ lb_data = <<>>
    /\ IF pc = "parse"
       THEN /\ useful <= rx
            /\ Bytes(0, useful) = Positions(rx - useful, useful)
            /\ FlattenSeq(out) = Positions(0, rx - useful)
       ELSE FlattenSeq(out) = Positions(0, rx)

\* Together: the buffer, the large block and the events hold the
\* received part of the stream between them, each byte once.
RecvInv ==
  /\ TypeOK
  /\ References
  /\ Requesting
  /\ Delivered
  /\ Assembling
  /\ Filling
  /\ Parsing
  /\ Resting
  /\ Raw
=============================================================================
