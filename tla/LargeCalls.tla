----------------------------- MODULE LargeCalls -----------------------------
(***************************************************************************)
(* Byte ranges: class MetaManage (common/src/MetaManage.cpp), which the    *)
(* client programs of Client.cpp use, and the master server                *)
(* (MasterServer.cpp) that cuts a range into stripes ("segments") and      *)
(* chunks.  A call asks the master, starts one thread per piece and copies *)
(* the answers out without joining the threads, byte by byte while they    *)
(* decode them byte by byte into the same vectors; the array of these is   *)
(* on its stack.                                                           *)
(*                                                                         *)
(* A data server is the register file that the scheme modules show it to   *)
(* be: a request for a piece takes effect at once.  Two threads that share *)
(* a stub are the matter of Connections.  Offsets and chunk numbers count  *)
(* from 0 as in the code; a chunk number is not cut to 16 bits.            *)
(***************************************************************************)
EXTENDS Integers, SequencesExt

CONSTANTS
  Data,        \* number of data servers
  Size,        \* bytes of a chunk
  Part,        \* bytes of a part, the unit of positions in a request
  Ranges,      \* pairs <<offset, length>> the program asks for
  Sym,         \* contents: a byte of the file is a symbol and its offset
  First,       \* the symbol the file is created with
  Zero,        \* a byte of a vector that has been resized and not read into
  Calls,       \* identities of calls whose threads are alive
  Patient,     \* the program waits, by luck or a clock, for the threads of a call
  NoCall

ASSUME LargeCallsAssumption ==
  /\ Data \in Nat \ {0} /\ Size \in Nat \ {0} /\ Part \in Nat \ {0}
  /\ \A r \in Ranges : r[1] \in 0..(2 * Size * Data - 1) /\ r[2] \in Nat \ {0}
  /\ First \in Sym
  /\ Zero \notin Sym \X Nat
  /\ Patient \in BOOLEAN
  /\ NoCall \notin Calls

VARIABLES
  file,      \* of every data server: user_data.bin
  image,     \* history: what the program has written, over the created file
  whole,     \* history: every write since the creation was of a good range, none cut
  running,   \* the client program runs
  call,      \* the call it is in, NoCall outside
  answers,   \* responses[]: the vectors the answers are decoded into
  copy,      \* the loop of a read over the answers, and result by piece
  threads,   \* the threads started for pieces, as far as they are
  seen       \* the last read that returned: the call, and what was copied out

vars == <<file, image, whole, running, call, answers, copy, threads, seen>>

-----------------------------------------------------------------------------
(***************************************************************************)
(* The master server.                                                      *)
(***************************************************************************)

\* Division of C++, which truncates toward zero.
Quot(a, b) == IF a >= 0 THEN a \div b ELSE -((-a) \div b)
Rem(a, b)  == a - b * Quot(a, b)

Stripe == Size * Data

\* getSegmentInfoByOffset and getChunkInfoByOffset: the length counts from the
\* offset in the file, or the stripe, not from the one in the piece.
InfoByOffset(offset, unit) ==
  [id |-> Quot(offset, unit), at |-> Rem(offset, unit), len |-> unit - offset]

\* Faulty variant: the last piece ends one byte early.
PiecesShort(offset, length, unit) ==
  LET first == InfoByOffset(offset, unit)
      last  == InfoByOffset(offset + length - 1, unit)
  IN IF first.id = last.id THEN <<[id |-> first.id, at |-> first.at, len |-> length]>>
     ELSE <<first>>
          \o [i \in 1..(last.id - first.id - 1) |->
                [id |-> first.id + i, at |-> 0, len |-> unit]]
          \o <<[id |-> last.id, at |-> 0, len |-> last.at]>>

\* What splitToSegment and splitToChunk have in common.
Pieces(offset, length, unit) ==
  LET first == InfoByOffset(offset, unit)
      last  == InfoByOffset(offset + length - 1, unit)
  IN IF first.id = last.id THEN <<[id |-> first.id, at |-> first.at, len |-> length]>>
     ELSE <<first>>
          \o [i \in 1..(last.id - first.id - 1) |->
                [id |-> first.id + i, at |-> 0, len |-> unit]]
          \o <<[id |-> last.id, at |-> 0, len |-> last.at + 1]>>

\* splitToSegment writes a stripe between the first and the last to an empty vector,
\* which ends the master.
MasterCrashes(offset, length) == Len(Pieces(offset, length, Stripe)) > 2

\* getChunkServer: the chunks of every stripe.  The client reads only their number.
ChunkServers(offset, length) ==
  LET segments == Pieces(offset, length, Stripe)
      chunks(s) == Pieces(s.at, s.len, Size)
  IN IF Len(segments) = 1 THEN chunks(segments[1])
     ELSE chunks(segments[1]) \o chunks(segments[2])

\* Where piece p begins and ends in the file.
Begins(p) == p.id * Size + p.at
Ends(p)   == Begins(p) + p.len

\* The pieces cover the range from beginning to end, each within its chunk.
Tiles(ps, offset, length) ==
  /\ Begins(ps[1]) = offset /\ Ends(ps[Len(ps)]) = offset + length
  /\ \A i \in 1..(Len(ps) - 1) : Ends(ps[i]) = Begins(ps[i + 1])
  /\ \A i \in 1..Len(ps) : /\ ps[i].id \in 0..(Data - 1)
                           /\ ps[i].at >= 0 /\ ps[i].len > 0
                           /\ ps[i].at + ps[i].len <= Size

\* What a program may ask for and get: a range in the first stripe that begins at a
\* part of a chunk, and begins in the first chunk when it crosses a border.
Good(offset, length) ==
  /\ offset + length <= Stripe
  /\ (offset % Size) % Part = 0
  /\ offset < Size \/ offset \div Size = (offset + length - 1) \div Size

-----------------------------------------------------------------------------
(***************************************************************************)
(* The file.                                                               *)
(***************************************************************************)
Offsets   == 0..(Stripe - 1)
Byte      == Sym \X Nat
Created   == [o \in Offsets |-> <<First, o>>]

\* user_data.bin of every server for a content of the stripe.
FilesOf(content) ==
  [s \in 0..(Data - 1) |-> [j \in 0..(Size - 1) |-> content[s * Size + j]]]

\* The thread of piece slot of a call.  pos is where its request points to, got counts
\* the bytes it has decoded.
Threads ==
  [call : Calls \cup {NoCall}, op : {"write", "read"}, slot : Nat, srv : Nat,
   pos : Nat, len : Nat, state : {"started", "sent", "served", "reading"},
   data : Seq(Byte), got : Nat]

Decoded == Seq(Byte \cup {Zero})

\* piece is the one being copied, left what is still to be copied of it, bytes what has
\* been copied of every piece: the vector result is their concatenation.  answered is
\* a history: the pieces whose threads had ended when they were looked at.
NoCopy == [piece |-> 0, left |-> 0, bytes |-> <<>>, answered |-> {}]

TypeOK ==
  /\ file \in [0..(Data - 1) -> [0..(Size - 1) -> Byte]]
  /\ image \in [Offsets -> Byte]
  /\ whole \in BOOLEAN /\ running \in BOOLEAN
  /\ \A t \in threads : t \in Threads
  /\ call # NoCall => /\ call.name \in Calls
                      /\ answers \in [DOMAIN call.pieces -> Decoded]
                      /\ copy.bytes \in [DOMAIN call.pieces -> Decoded]
  /\ copy \in [piece : Nat, left : Nat, bytes : Seq(Decoded), answered : SUBSET Nat]

Init ==
  /\ image = Created
  /\ file = FilesOf(Created)
  /\ whole = TRUE
  /\ running = TRUE
  /\ call = NoCall
  /\ answers = <<>>
  /\ copy = NoCopy
  /\ threads = {}
  /\ seen = NoCall

-----------------------------------------------------------------------------
(***************************************************************************)
(* The calls.                                                              *)
(***************************************************************************)

\* Bytes of the caller's buffer before piece i, temp_length.
Before(ps, i) ==
  LET temp_length[k \in 1..i] ==
        IF k = 1 THEN 0 ELSE temp_length[k - 1] + ps[k - 1].len
  IN temp_length[i]

\* Faulty variant: every piece takes its data from the beginning of the buffer.
SliceFirst(ps, i, offset, sym) == [j \in 1..ps[i].len |-> <<sym, offset + j - 1>>]

\* requests[i].data of a write.
Slice(ps, i, offset, sym) ==
  [j \in 1..ps[i].len |-> <<sym, offset + Before(ps, i) + j - 1>>]

\* requests[i].partId, times the size of a part.
Position(p) == (p.at \div Part) * Part

\* Faulty variant: every thread is given the first answer.
StartedIntoFirst(c, op, ps, offset, sym) ==
  {[call |-> c, op |-> op, slot |-> 1, srv |-> ps[i].id, pos |-> Position(ps[i]),
    len |-> ps[i].len, state |-> "started", got |-> 0,
    data |-> IF op = "write" THEN Slice(ps, i, offset, sym) ELSE <<>>] : i \in DOMAIN ps}

Started(c, op, ps, offset, sym) ==
  {[call |-> c, op |-> op, slot |-> i, srv |-> ps[i].id, pos |-> Position(ps[i]),
    len |-> ps[i].len, state |-> "started", got |-> 0,
    data |-> IF op = "write" THEN Slice(ps, i, offset, sym) ELSE <<>>] : i \in DOMAIN ps}

\* Faulty variant: a server drops a request whose program has ended.
ProgramEndsDropped ==
  /\ running' = FALSE
  /\ call' = NoCall
  /\ answers' = <<>>
  /\ copy' = NoCopy
  /\ threads' = {}
  /\ whole' = (whole /\ ~\E t \in threads : t.op = "write" /\ t.state = "started")

\* The end of the client program: its threads are gone, and what is left of them are the
\* requests on their way, which have nobody to answer.
ProgramEnds ==
  /\ running' = FALSE
  /\ call' = NoCall
  /\ answers' = <<>>
  /\ copy' = NoCopy
  /\ threads' = {[t EXCEPT !.call = NoCall] : t \in {u \in threads : u.state = "sent"}}
  /\ whole' = (whole /\ ~\E t \in threads : t.op = "write" /\ t.state = "started")

\* A call is made.  Nothing is said of the file once a write has gone wrong.
Callable(c) ==
  /\ running /\ whole
  /\ call = NoCall
  /\ \A t \in threads : ~Patient /\ t.call # c

\* The master crashes, or a piece has a negative length and the vector of its data
\* throws: nothing catches it.
Refused(offset, length) ==
  \/ MasterCrashes(offset, length)
  \/ \E i \in DOMAIN ChunkServers(offset, length) : ChunkServers(offset, length)[i].len < 0

CallRefused(c, offset, length) ==
  /\ Callable(c)
  /\ Refused(offset, length)
  /\ ProgramEnds
  /\ seen' = NoCall
  /\ UNCHANGED <<file, image>>

\* MetaManage::write and read up to the loop that starts the threads.  repair is read
\* with another method.
Call(c, op, offset, length, sym) ==
  /\ Callable(c)
  /\ ~Refused(offset, length)
  /\ LET ps == ChunkServers(offset, length)
     IN /\ call' = [name |-> c, op |-> op, offset |-> offset, length |-> length,
                    pieces |-> ps]
        /\ answers' = [i \in DOMAIN ps |-> <<>>]
        /\ copy' = [NoCopy EXCEPT !.bytes = [i \in DOMAIN ps |-> <<>>]]
        /\ threads' = threads \cup Started(c, op, ps, offset, sym)
  /\ IF op = "write"
     THEN /\ image' = [o \in Offsets |-> IF o \in offset..(offset + length - 1)
                                         THEN <<sym, o>> ELSE image[o]]
          /\ whole' = Good(offset, length)
     ELSE UNCHANGED <<image, whole>>
  /\ seen' = NoCall
  /\ UNCHANGED <<file, running>>

Sends(t) ==
  /\ t.state = "started"
  /\ threads' = (threads \ {t}) \cup {[t EXCEPT !.state = "sent"]}
  /\ UNCHANGED <<file, image, whole, running, call, answers, copy, seen>>

\* The data server: a write, or a read, degraded or not.
Serve(t) ==
  /\ t.state = "sent"
  /\ IF t.op = "write"
     THEN /\ file' = [file EXCEPT ![t.srv] = [j \in DOMAIN @ |->
                        IF j \in t.pos..(t.pos + t.len - 1) THEN t.data[j - t.pos + 1]
                        ELSE @[j]]]
          /\ threads' = (threads \ {t}) \cup {[t EXCEPT !.state = "served", !.data = <<>>]}
     ELSE /\ threads' = (threads \ {t}) \cup {[t EXCEPT !.state = "served",
                        !.data = [j \in 1..t.len |-> file[t.srv][t.pos + j - 1]]]}
          /\ UNCHANGED file
  /\ UNCHANGED <<image, whole, running, call, answers, copy, seen>>

Awaited(t) == call # NoCall /\ t.call = call.name

\* The vector a thread decodes its answer into.  When its call has returned the frame
\* is gone, and this is memory nobody uses (0) or a vector of the next call.
Targets(t) == IF Awaited(t) THEN {t.slot} ELSE {0} \cup DOMAIN answers

Store(i, vector) ==
  answers' = [k \in DOMAIN answers |-> IF k = i THEN vector ELSE answers[k]]

\* Response::read into responses[slot]: data.clear(), and data.resize(n).
Resize(t) ==
  /\ t.call # NoCall /\ t.state = "served"
  /\ \E i \in Targets(t) : Store(i, [j \in DOMAIN t.data |-> Zero])
  /\ threads' = (threads \ {t}) \cup {[t EXCEPT !.state = "reading"]}
  /\ UNCHANGED <<file, image, whole, running, call, copy, seen>>

\* readByte(data[got]).
ReadByte(t) ==
  /\ t.state = "reading" /\ t.got < Len(t.data)
  /\ \E i \in Targets(t) :
       Store(i, [j \in DOMAIN answers[i] |->
                   IF j = t.got + 1 THEN t.data[j] ELSE answers[i][j]])
  /\ threads' = (threads \ {t}) \cup {[t EXCEPT !.got = @ + 1]}
  /\ UNCHANGED <<file, image, whole, running, call, copy, seen>>

\* The answer is read and the thread ends; or its program has ended before.
ThreadEnds(t) ==
  /\ \/ t.state = "reading" /\ t.got = Len(t.data)
     \/ t.state = "served" /\ t.call = NoCall
  /\ threads' = threads \ {t}
  /\ UNCHANGED <<file, image, whole, running, call, answers, copy, seen>>

\* What a thread stores where a frame has been ends the program.
LateEnds(t) ==
  /\ t.call # NoCall /\ t.state \in {"served", "reading"}
  /\ ~Awaited(t)
  /\ ProgramEnds
  /\ UNCHANGED <<file, image, seen>>

\* The loop of a read that copies the answers out.  No code is ERROR, as no answer sets
\* it.  Look is the evaluation of data.begin() and data.end() for the next piece.
Looks == call # NoCall /\ call.op = "read" /\ copy.left = 0 /\ copy.piece < Len(answers)

Look ==
  /\ Looks
  /\ LET i == copy.piece + 1
         ended == \A t \in threads : ~(Awaited(t) /\ t.slot = i)
     IN copy' = [copy EXCEPT !.piece = i, !.left = Len(answers[i]),
                             !.answered = IF ended THEN @ \cup {i} ELSE @]
  /\ UNCHANGED <<file, image, whole, running, call, answers, threads, seen>>

\* The vector is resized between the two: its length is nonsense, which throws.
LookTorn ==
  /\ Looks
  /\ \E t \in threads : /\ Awaited(t) /\ t.slot = copy.piece + 1
                        /\ t.state = "served" /\ t.data # <<>>
  /\ ProgramEnds
  /\ seen' = NoCall
  /\ UNCHANGED <<file, image>>

\* result.insert copies a byte, which may not have been read yet (or be freed memory,
\* if a late answer has resized the vector).
CopyByte ==
  /\ copy.left > 0
  /\ LET i == copy.piece
         j == Len(copy.bytes[i]) + 1
         byte == IF j \in DOMAIN answers[i] THEN answers[i][j] ELSE Zero
     IN copy' = [copy EXCEPT !.left = @ - 1, !.bytes[i] = Append(@, byte)]
  /\ UNCHANGED <<file, image, whole, running, call, answers, threads, seen>>

Return ==
  /\ call # NoCall
  /\ call.op = "read" => copy.piece = Len(answers) /\ copy.left = 0
  /\ call' = NoCall
  /\ answers' = <<>>
  /\ copy' = NoCopy
  /\ seen' = IF call.op = "write" THEN NoCall
             ELSE [call |-> call, copied |-> copy.bytes, answered |-> copy.answered]
  /\ UNCHANGED <<file, image, whole, running, threads>>

\* main returns.
Exit ==
  /\ running
  /\ call = NoCall
  /\ Patient => threads = {}
  /\ ProgramEnds
  /\ seen' = NoCall
  /\ UNCHANGED <<file, image>>

\* The program is started again, or started with -c: Manage::create joins its threads.
Launch ==
  /\ ~running
  /\ running' = TRUE
  /\ UNCHANGED <<file, image, whole, call, answers, copy, threads, seen>>

Create ==
  /\ ~running /\ threads = {}
  /\ image' = Created
  /\ file' = FilesOf(Created)
  /\ whole' = TRUE
  /\ seen' = NoCall
  /\ UNCHANGED <<running, call, answers, copy, threads>>

Next ==
  \/ \E c \in Calls, r \in Ranges :
       \/ CallRefused(c, r[1], r[2])
       \/ \E op \in {"write", "read"}, sym \in Sym : Call(c, op, r[1], r[2], sym)
  \/ \E t \in threads : Sends(t) \/ Serve(t) \/ Resize(t) \/ ReadByte(t)
                         \/ ThreadEnds(t) \/ LateEnds(t)
  \/ Look \/ LookTorn \/ CopyByte \/ Return \/ Exit \/ Launch \/ Create

Spec == Init /\ [][Next]_vars

-----------------------------------------------------------------------------
(***************************************************************************)
(* Properties.                                                             *)
(***************************************************************************)

\* The master's pieces of a good range cover it, in order and each within a chunk, so
\* that the client's slices of its buffer (temp_length) are the bytes meant for them.
PiecesTile ==
  call # NoCall /\ Good(call.offset, call.length) =>
    Tiles(call.pieces, call.offset, call.length)

\* When no write of a patient program is on its way, the chunks hold what the program
\* has written, in spite of calls that returned before their threads did anything, of
\* late answers into dead stack frames and of programs that end.
FileIsImage ==
  whole /\ (\A t \in threads : t.op # "write") => file = FilesOf(image)

\* The current content of a piece.
Content(p) == [j \in 1..p.len |-> image[Begins(p) + j - 1]]

\* The thread is going to write byte j of server s.
Writes(t) == t.op = "write" /\ t.state \in {"started", "sent"}
Covers(t, s, j) == Writes(t) /\ t.srv = s /\ j \in t.pos..(t.pos + t.len - 1)

\* The inductive invariant of a patient program.  The threads are those of its call,
\* or of the last one when it is in none; a late answer finds no frame.
ThreadsOfCall ==
  /\ ~running => call = NoCall
  /\ call # NoCall =>
       /\ call.offset \in Nat /\ call.length \in Nat \ {0}
       /\ call.pieces = ChunkServers(call.offset, call.length)
       /\ answers = [i \in DOMAIN call.pieces |-> answers[i]]
       /\ \A t \in threads : /\ t.call = call.name /\ t.op = call.op
                             /\ t.slot \in DOMAIN call.pieces

\* A byte that is not yet what the program wrote there is covered by a thread that
\* brings it.
FileBehindImage ==
  /\ file = [s \in 0..(Data - 1) |-> [j \in 0..(Size - 1) |-> file[s][j]]]
  /\ whole =>
       /\ \A t \in threads : Writes(t) =>
            /\ t.srv \in 0..(Data - 1) /\ t.pos \in Nat /\ t.pos + t.len <= Size
            /\ t.len \in Nat
            /\ t.data = [j \in 1..t.len |-> image[t.srv * Size + t.pos + j - 1]]
       /\ \A s \in 0..(Data - 1), j \in 0..(Size - 1) :
            \/ file[s][j] = image[s * Size + j]
            \/ \E t \in threads : Covers(t, s, j)

\* The content of a piece of which n bytes have been read.
FilledTo(p, n) == [j \in 1..p.len |-> IF j <= n THEN Content(p)[j] ELSE Zero]

\* A read of the range of a patient program, none of whose writes has gone wrong.
ReadsGood == whole /\ call # NoCall /\ call.op = "read" /\ Good(call.offset, call.length)

\* Every vector is as full as the thread of its piece has come, and with the content of
\* the piece when the thread has ended.
FilledBy(t) ==
  LET p == call.pieces[t.slot]
  IN /\ t.srv = p.id /\ t.pos = p.at /\ t.len = p.len
     /\ t.got \in IF t.state = "reading" THEN 0..p.len ELSE {0}
     /\ t.state \in {"served", "reading"} => t.data = Content(p)
     /\ answers[t.slot] = IF t.state = "reading" THEN FilledTo(p, t.got) ELSE <<>>
     /\ \A u \in threads : u.slot = t.slot => u = t

AnswersFilled ==
  ReadsGood =>
    /\ \A t \in threads : FilledBy(t)
    /\ \A i \in DOMAIN call.pieces :
         (\A t \in threads : t.slot # i) => answers[i] = Content(call.pieces[i])

\* A sequence is as much of a piece as was copied: a byte that had not been read is
\* zero.
PartOf(b, p) ==
  /\ Len(b) \in 0..p.len
  /\ b = [j \in 1..Len(b) |-> b[j]]
  /\ \A j \in 1..Len(b) : b[j] \in {Zero, Content(p)[j]}

\* What a read has copied, and will copy, of piece i: all of it or nothing, and its
\* content if its thread had ended.
CopiedOf(i) ==
  LET p == call.pieces[i]
      b == copy.bytes[i]
      all == Len(b) + (IF i = copy.piece THEN copy.left ELSE 0)
  IN /\ PartOf(b, p) /\ all \in {0, p.len}
     /\ i > copy.piece => b = <<>> /\ i \notin copy.answered
     /\ i \in copy.answered => /\ \A t \in threads : t.slot # i
                               /\ all = p.len
                               /\ \A j \in 1..Len(b) : b[j] = Content(p)[j]

CopiesCurrent ==
  ReadsGood =>
    /\ copy.piece \in 0..Len(call.pieces) /\ copy.left \in Nat
    /\ copy = [piece |-> copy.piece, left |-> copy.left, answered |-> copy.answered,
               bytes |-> [i \in DOMAIN call.pieces |-> copy.bytes[i]]]
    /\ copy.left > 0 => copy.piece > 0 /\ Len(answers[copy.piece]) # 0
    /\ \A i \in DOMAIN call.pieces : CopiedOf(i)

PatientInv == ThreadsOfCall /\ FileBehindImage /\ AnswersFilled /\ CopiesCurrent

\* A read copies out each of its chunks or nothing of it; at every place of a chunk the
\* current byte, or zero if its thread had not got there yet, and the current bytes only
\* if the thread had ended before the call looked: never an older content, a byte from
\* elsewhere or part of a chunk without its end.  (The chunks after one that is left out
\* are copied to a wrong place.)
ReadsCurrentBytes ==
  seen # NoCall /\ whole /\ Good(seen.call.offset, seen.call.length) =>
    \A i \in DOMAIN seen.call.pieces :
      LET p == seen.call.pieces[i]
          b == seen.copied[i]
      IN IF i \in seen.answered THEN b = Content(p)
         ELSE b = <<>> \/ (Len(b) = p.len /\ PartOf(b, p))

\* "if(temp[j] != data[j]) ... 读取失败" (Client.cpp:261-262): read_iops holds every read
\* against the bytes last written to its range.
ReadsReturnRange ==
  seen # NoCall /\ whole /\ Good(seen.call.offset, seen.call.length) =>
    FlattenSeq(seen.copied) = [j \in 1..seen.call.length |-> image[seen.call.offset + j - 1]]
=============================================================================
