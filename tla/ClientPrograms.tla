--------------------------- MODULE ClientPrograms ---------------------------
(***************************************************************************)
(* The programs of Client.cpp, which drive MetaManage and look at what it  *)
(* returns.  The -s and -t programs read a trace and make a call per line. *)
(* The -i programs write num ranges in turn, rounds times, and read (or    *)
(* repair) them and compare.  What is written comes from numbered files,   *)
(* which a program makes when it does not find them; they stay for the     *)
(* next program.                                                           *)
(*                                                                         *)
(* A call is taken to have its effect when it returns (see LargeCalls for  *)
(* what becomes of that), and programs run one at a time.                  *)
(***************************************************************************)
EXTENDS Integers, SequencesExt

CONSTANTS
  FileSize,            \* bytes of the file
  Rounds, Nums, Sizes, \* values of the arguments of the -i programs
  MaxLines             \* bound on the lines of a trace

\* rounds and num are ints: each has a largest value.
ASSUME ClientAssumption ==
  /\ FileSize \in Nat \ {0} /\ MaxLines \in Nat
  /\ Sizes \subseteq Nat \ {0}
  /\ \A S \in {Rounds, Nums} : S \subseteq Nat \ {0} /\ \E x \in S : \A y \in S : x >= y

VARIABLES
  disk,      \* length of every numbered file of data, Absent if it is not there
  content,   \* the bytes of the file in HWDFS
  prog,      \* the program that runs, and how many of its calls it has made
  alarm,     \* it has printed that a read, or a repair, failed
  updated    \* history: arguments of the last program that wrote, if it has ended

programVars == <<disk, content, prog, alarm, updated>>

-----------------------------------------------------------------------------
(***************************************************************************)
(* Traces.  A line is a record, or Empty; a line of 100 characters does    *)
(* not fit in temp.  A file is its lines, and whether the last one ends    *)
(* with a newline.                                                         *)
(***************************************************************************)
Empty == [type |-> "", name |-> 0, long |-> FALSE]

\* getline, the k-th time: after a line that did not fit the stream has failed.
Get(file, k) ==
  IF k > Len(file.lines) \/ (\E j \in 1..(k - 1) : file.lines[j].long) THEN Empty
  ELSE file.lines[k]

\* Whether it has met the end of the file.
Eof(file, k) ==
  /\ \A j \in 1..k : j <= Len(file.lines) => ~file.lines[j].long
  /\ k > Len(file.lines) \/ (k = Len(file.lines) /\ ~file.newline)

\* The number of times the loop is entered: it ends with the file, or an empty line.
Entered(file) ==
  LET last(k) == Get(file, k) = Empty \/ Eof(file, k)
  IN CHOOSE k \in 1..(Len(file.lines) + 1) : last(k) /\ \A j \in 1..(k - 1) : ~last(j)

\* Faulty variant: a trace ends only with its file.
TracesUnchecked(file) == [k \in 1..Entered(file) |-> Get(file, k)]

\* vector<Trace> traces of the -t programs, which leave the loop at an empty line.
Traces(file) ==
  SelectSeq([k \in 1..Entered(file) |-> Get(file, k)], LAMBDA line : line # Empty)

\* The -s programs look at the fourth field of every line, an empty one too.
Undefined(file) == Get(file, Entered(file)) = Empty

OfType(traces, type) == SelectSeq(traces, LAMBDA line : line.type = type)

\* A call, for a line; data is the number of the file a write takes its data from.
CallsFor(op, traces) ==
  [i \in DOMAIN traces |-> [op |-> op, name |-> traces[i].name,
                            data |-> IF op = "write" THEN i ELSE 0]]

update_sample(file)      == CallsFor("write", OfType(Traces(file), "Write"))
read_sample(file)        == CallsFor("read", OfType(Traces(file), "Read"))
degard_read_sample(file) == CallsFor("repair", OfType(Traces(file), "Read"))

update_traces(file) == CallsFor("write", Traces(file))
read_traces(file)   == CallsFor("read", Traces(file))

\* Reads and writes in their order; index counts the writes.
hybrid_traces(file) ==
  LET traces == Traces(file)
  IN [i \in DOMAIN traces |->
        IF traces[i].type = "Write"
        THEN [op |-> "write", name |-> traces[i].name,
              data |-> Len(OfType(SubSeq(traces, 1, i), "Write"))]
        ELSE [op |-> "read", name |-> traces[i].name, data |-> 0]]

\* First all writes, then a repair for every read.
degard_read_traces(file) ==
  CallsFor("write", OfType(Traces(file), "Write")) \o CallsFor("repair", OfType(Traces(file), "Read"))

-----------------------------------------------------------------------------
(***************************************************************************)
(* The -i programs.                                                        *)
(***************************************************************************)
Absent == -1
NoProg == [op |-> "none"]

\* Ranges beyond the stripe are the matter of LargeCalls.
Step(a) == FileSize \div a.num
Args == {a \in [rounds : Rounds, num : Nums, size : Sizes] :
           Step(a) * (a.num - 1) + a.size <= FileSize}

MaxOf(S) == CHOOSE x \in S : \A y \in S : x >= y
Numbers == 1..(MaxOf(Rounds) * MaxOf(Nums))

\* Byte j of file k, a byte of the created file, and one that nobody has written.
FileByte == (Numbers \X Nat) \cup {<<"created">>, <<"unknown">>}
Known(b) == b # <<"unknown">>

ProgramsTypeOK ==
  /\ disk \in [Numbers -> {Absent} \cup Nat]
  /\ content \in [0..(FileSize - 1) -> FileByte]
  /\ prog \in {NoProg} \cup [op : {"write", "read", "repair"}, args : Args, made : Nat]
  /\ alarm \in BOOLEAN
  /\ updated \in Args \cup {NoProg}

ProgramsInit ==
  /\ disk = [k \in Numbers |-> Absent]
  /\ content = [o \in 0..(FileSize - 1) |-> <<"created">>]
  /\ prog = NoProg
  /\ alarm = FALSE
  /\ updated = NoProg

\* Faulty variant: a file that is too short is made longer once it has been read.
DiskExtended(k, size) == [disk EXCEPT ![k] = IF @ < size THEN size ELSE @]

\* createUpdateData: what it leaves on the disk, and in a buffer for size bytes.  A
\* file that is too short fills its beginning only.
DiskWith(k, size) == [disk EXCEPT ![k] = IF @ = Absent THEN size ELSE @]
Filled(k, size) ==
  [j \in 0..(size - 1) |-> IF disk[k] = Absent \/ j < disk[k] THEN <<k, j>> ELSE <<"unknown">>]

\* -c: MetaManage::create.
CreateFile ==
  /\ prog = NoProg
  /\ content' = [o \in 0..(FileSize - 1) |-> <<"created">>]
  /\ updated' = NoProg
  /\ alarm' = FALSE
  /\ UNCHANGED <<disk, prog>>

Start(op, a) ==
  /\ prog = NoProg
  /\ prog' = [op |-> op, args |-> a, made |-> 0]
  /\ alarm' = FALSE
  /\ updated' = IF op = "write" THEN NoProg ELSE updated
  /\ UNCHANGED <<disk, content>>

\* Faulty variant: the numbers of the first round.
FirstRound(a) == 1

\* The number of the data that the last round wrote to the first range.
FirstCompared(a) == (a.rounds - 1) * a.num + 1

UpdateStep ==
  /\ prog.op = "write"
  /\ prog.made < prog.args.rounds * prog.args.num
  /\ LET a      == prog.args
         k      == prog.made + 1
         offset == Step(a) * (prog.made % a.num)
     IN /\ disk' = DiskWith(k, a.size)
        /\ content' = [o \in DOMAIN content |->
                         IF o \in offset..(offset + a.size - 1)
                         THEN Filled(k, a.size)[o - offset] ELSE content[o]]
  /\ prog' = [prog EXCEPT !.made = @ + 1]
  /\ UNCHANGED <<alarm, updated>>

CompareStep ==
  /\ prog.op \in {"read", "repair"}
  /\ prog.made < prog.args.num
  /\ LET a      == prog.args
         k      == FirstCompared(a) + prog.made
         offset == Step(a) * prog.made
         temp   == Filled(k, a.size)
         data   == [j \in 0..(a.size - 1) |-> content[offset + j]]
         known  == {j \in DOMAIN temp : Known(temp[j]) /\ Known(data[j])}
     IN /\ disk' = DiskWith(k, a.size)
        /\ \E failed \in BOOLEAN :
             /\ (\E j \in known : temp[j] # data[j]) => failed
             /\ known = DOMAIN temp /\ temp = data => ~failed
             /\ alarm' = (alarm \/ failed)
  /\ prog' = [prog EXCEPT !.made = @ + 1]
  /\ UNCHANGED <<content, updated>>

End ==
  /\ prog # NoProg
  /\ prog.made = prog.args.num * (IF prog.op = "write" THEN prog.args.rounds ELSE 1)
  /\ updated' = IF prog.op = "write" THEN prog.args ELSE updated
  /\ prog' = NoProg
  /\ alarm' = FALSE
  /\ UNCHANGED <<disk, content>>

\* The program is killed between two calls, or while it makes file k.
Kill ==
  /\ prog # NoProg
  /\ prog' = NoProg
  /\ alarm' = FALSE
  /\ \/ UNCHANGED disk
     \/ /\ prog.op = "write"
        /\ prog.made < prog.args.rounds * prog.args.num
        /\ disk[prog.made + 1] = Absent
        /\ \E n \in 0..(prog.args.size - 1) : disk' = [disk EXCEPT ![prog.made + 1] = n]
  /\ UNCHANGED <<content, updated>>

ProgramsNext ==
  \/ CreateFile
  \/ \E op \in {"write", "read", "repair"}, a \in Args : Start(op, a)
  \/ prog # NoProg /\ (UpdateStep \/ CompareStep)
  \/ End \/ Kill

ProgramsSpec == ProgramsInit /\ [][ProgramsNext]_programVars

-----------------------------------------------------------------------------
(***************************************************************************)
(* Properties.                                                             *)
(***************************************************************************)

\* A comparison of read_iops or degard_read_iops finds fault with HWDFS only: run with
\* the arguments of the program that wrote last, it fails on no byte, whatever
\* programs ran, made files or were killed before.  It does when the ranges overlap,
\* and when a file of data is left over from a program with a smaller size or from one
\* that was killed.
NoFalseAlarm ==
  alarm /\ prog.args = updated =>
    \/ prog.args.size > Step(prog.args)
    \/ \E k \in FirstCompared(prog.args)..(prog.args.rounds * prog.args.num) :
         disk[k] < prog.args.size

\* Ranges do not overlap.
Apart(a) == a.size <= Step(a)

\* File k is on the disk, and as much as it has of a range is in HWDFS, at the place
\* where a program with arguments a writes it.
Written(a, k) ==
  /\ disk[k] # Absent
  /\ \A j \in 0..(a.size - 1) :
       j < disk[k] => content[Step(a) * ((k - 1) % a.num) + j] = <<k, j>>

\* How far a program has come, and what it knows of others.
ProgramProgress ==
  /\ prog = NoProg => ~alarm
  /\ prog # NoProg /\ prog.op = "write" =>
       prog.made <= prog.args.rounds * prog.args.num /\ ~alarm /\ updated = NoProg
  /\ prog # NoProg /\ prog.op # "write" => prog.made <= prog.args.num

\* The last num files that a program has written, or that the last one to end wrote,
\* are all in HWDFS: none has been overwritten by a later one.
LastRoundWritten ==
  /\ prog # NoProg /\ prog.op = "write" /\ Apart(prog.args) =>
       \A k \in 1..prog.made : k > prog.made - prog.args.num => Written(prog.args, k)
  /\ updated # NoProg /\ Apart(updated) =>
       \A k \in FirstCompared(updated)..(updated.rounds * updated.num) : Written(updated, k)

\* The inductive invariant of the programs: at any point, also after programs were
\* killed, the ranges hold the files of the last round as far as these go, which is
\* what read_iops and degard_read_iops compare them with.
ProgramsInv == ProgramsTypeOK /\ ProgramProgress /\ LastRoundWritten

\* Every trace of well-formed lines, with or without a newline at its end, is replayed
\* line by line: no call is missing, made twice or out of order, each write has data
\* of its own.  (Stated of the first state.)  The -s programs do so only without the
\* newline: they index into the empty line after it.
EveryTraceReplayed ==
  disk = [k \in Numbers |-> Absent] /\ prog = NoProg =>
    \A n \in 0..MaxLines : \A types \in [1..n -> {"Read", "Write"}], newline \in BOOLEAN :
      LET file == [lines |-> [k \in 1..n |-> [type |-> types[k], name |-> k, long |-> FALSE]],
                   newline |-> newline]
          names(calls, ops) == LET those == SelectSeq(calls, LAMBDA c : c.op \in ops)
                               IN [i \in DOMAIN those |-> those[i].name]
          lines(wanted) == SelectSeq([k \in 1..n |-> k], LAMBDA k : types[k] \in wanted)
          numbered(calls) == LET writes == SelectSeq(calls, LAMBDA c : c.op = "write")
                             IN \A i \in DOMAIN writes : writes[i].data = i
          both == {"Read", "Write"}
          hybrid == hybrid_traces(file)
          degard == degard_read_traces(file)
      IN /\ names(update_traces(file), {"write"}) = lines(both)
         /\ names(read_traces(file), {"read"}) = lines(both)
         /\ names(hybrid, {"write", "read"}) = lines(both)
         /\ names(hybrid, {"write"}) = lines({"Write"}) /\ numbered(hybrid)
         /\ names(degard, {"write", "repair"}) = lines({"Write"}) \o lines({"Read"})
         /\ numbered(degard)
         /\ Undefined(file) = (newline \/ n = 0)
         /\ ~Undefined(file) =>
              /\ names(update_sample(file), {"write"}) = lines({"Write"})
              /\ names(read_sample(file), {"read"}) = lines({"Read"})
              /\ names(degard_read_sample(file), {"repair"}) = lines({"Read"})
=============================================================================
