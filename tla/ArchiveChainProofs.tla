-------------------------- MODULE ArchiveChainProofs --------------------------
(* For every number of calls, payloads, sizes of lines and max_bytes: appends    *)
(* that do not overlap, are not cut short and have no payload that splits when   *)
(* it is read keep the chain valid and the files bounded, and implement          *)
(* AuditLog, though any of them may end early.                                   *)
(*                                                                               *)
(* The argument.  One call is in progress at most (`Alone`), so nothing changes  *)
(* under it: what it has read is the archive up to the end of the last file it   *)
(* read (`Holding`), and all of it when it writes.  The file it chose is the     *)
(* last one or the next, so its line goes behind all others, where the           *)
(* sequence number and the digest it computed are the right ones.                *)
(*                                                                               *)
(* For calls that overlap or are cut short: no number is skipped, the event of a *)
(* call that returned stays recorded unless its own payload splits or a line is  *)
(* torn, and a line that does not parse is final.  Of what such a call           *)
(* read nothing is known but that it was in the archive.  Nothing is ever taken  *)
(* away, lines are only put between others (`Carry`); so a call that found k     *)
(* events found each number up to k in files before where it writes (`Sight`,    *)
(* `Seen`), and damage it has not read yet stays ahead of it (`Ahead`), which    *)
(* dooms it (`Doomed`).                                                          *)
EXTENDS ArchiveChain, FiniteSetTheorems, SequenceTheorems, TLAPS

FilesTyped == log \in Seq(Line) /\ files \in Seq(File)

CallsTyped ==
    /\ pc \in [Appends -> {"idle", "read", "write", "returned", "raised"}]
    /\ listed \in [Appends -> Nat] /\ read \in [Appends -> Nat] /\ target \in [Appends -> Nat]
    /\ got \in [Appends -> Seq(Line)]

Typed == FilesTyped /\ CallsTyped

\* The files divide the log: each ends where its lines end, the last where the log does.
Divided ==
    /\ files = <<>> => log = <<>>
    /\ files # <<>> => files[Len(files)].end = Len(log)
    /\ \A i, j \in DOMAIN files : i <= j => files[i].end <= files[j].end
    /\ \A i \in DOMAIN files :
         /\ files[i].bytes = 0 => files[i].end = EndOf(i - 1)
         /\ files[i].bytes > 0 => files[i].end > EndOf(i - 1)

Ends ==
    /\ Divided
    /\ \A i \in DOMAIN files : files[i].bytes <= MaxBytes \/ files[i].end <= EndOf(i - 1) + 1

Whole ==
    /\ ValidChain(log)
    /\ \A i \in DOMAIN log : log[i].tail = "newline" /\ pc[log[i].by] \in {"returned", "raised"}

Alone == \A a, b \in InProgress : a = b

Holding(a) ==
    /\ pc[a] = "idle" => read[a] = 0 /\ got[a] = <<>>
    /\ pc[a] = "read" => /\ listed[a] = Len(files) /\ read[a] <= listed[a]
                         /\ got[a] = SubSeq(log, 1, EndOf(read[a]))
    /\ pc[a] = "write" => /\ got[a] = log
                          /\ target[a] >= 1 /\ target[a] \in {Len(files), Len(files) + 1}
                          /\ target[a] = Len(files) => ~Full(a)

Tidy == Typed /\ Ends /\ Whole /\ Alone /\ \A a \in Appends : Holding(a)

Inv == Orderly => Tidy

LEMMA Sizes == MaxBytes \in Nat /\ \A a \in Appends : Size[a] \in Nat /\ Size[a] > 0
  BY SizeAssumption

LEMMA Begins == Init => Inv
  BY DEF Init, Inv, Tidy, Typed, FilesTyped, CallsTyped, Ends, Divided, Whole, ValidChain, Alone, InProgress, Holding, EndOf

-----------------------------------------------------------------------------
(* The files. *)

\* The end of a file is a place in the log.
LEMMA EndsInLog ==
    ASSUME FilesTyped, Divided, NEW n \in 0 .. Len(files)
    PROVE  EndOf(n) \in 0 .. Len(log) /\ (n = Len(files) => EndOf(n) = Len(log))
<1>1. CASE n = 0
  BY <1>1 DEF FilesTyped, Ends, Divided, EndOf
<1>2. CASE n # 0
  <2>1. n \in DOMAIN files /\ Len(files) \in DOMAIN files /\ files # <<>> /\ n <= Len(files)
    BY <1>2 DEF FilesTyped
  <2>2. files[n] \in File /\ files[n].end <= files[Len(files)].end
    BY <2>1 DEF FilesTyped, Ends, Divided
  <2>3. QED  BY <1>2, <2>1, <2>2 DEF Ends, Divided, EndOf, File
<1>3. QED  BY <1>1, <1>2

\* Opening the next file leaves it empty at the end of the log.
LEMMA OpenedFiles ==
    ASSUME FilesTyped, Divided, NEW n \in Nat, n >= 1, n \in {Len(files), Len(files) + 1}
    PROVE  /\ Opened(n) \in Seq(File) /\ Len(Opened(n)) = n
           /\ Opened(n)[n].end = Len(log)
           /\ \A i \in 1 .. (n - 1) : i \in DOMAIN files /\ Opened(n)[i] = files[i]
           /\ n = Len(files) => Opened(n) = files
           /\ n # Len(files) => Opened(n)[n].bytes = 0
<1>1. CASE n = Len(files)
  BY <1>1 DEF Opened, FilesTyped, Ends, Divided
<1>2. CASE n = Len(files) + 1
  <2>1. [end |-> Len(log), bytes |-> 0] \in File  BY DEF FilesTyped, File
  <2>2. Opened(n) = Append(files, [end |-> Len(log), bytes |-> 0])
    BY <1>2 DEF Opened, FilesTyped
  <2>3. /\ Opened(n) \in Seq(File) /\ Len(Opened(n)) = Len(files) + 1
        /\ \A i \in 1 .. Len(files) : Opened(n)[i] = files[i]
        /\ Opened(n)[Len(files) + 1] = [end |-> Len(log), bytes |-> 0]
    BY <2>1, <2>2, AppendProperties DEF FilesTyped
  <2>4. Len(files) \in Nat /\ DOMAIN files = 1 .. Len(files)  BY DEF FilesTyped
  <2>5. Opened(n)[n].end = Len(log) /\ Opened(n)[n].bytes = 0  BY <1>2, <2>3
  <2>6. \A i \in 1 .. (n - 1) : i \in 1 .. Len(files)  BY <1>2, <2>4
  <2>7. \A m \in Nat : m + 1 # m  OBVIOUS
  <2>8. n # Len(files)  BY <1>2, <2>4, <2>7
  <2>9. QED  BY <1>2, <2>3, <2>4, <2>5, <2>6, <2>8
<1>3. QED  BY <1>1, <1>2

\* File n is the last, the files before it are as they were.
LastIs(n, last) == files' = [i \in 1 .. n |-> IF i = n THEN last ELSE files[i]]

\* The files when only the last one, or one behind it, is another than before.
LEMMA LastFile ==
    ASSUME FilesTyped, Ends, NEW n \in Nat, n >= 1, n \in {Len(files), Len(files) + 1},
           NEW last \in File, LastIs(n, last),
           log' \in Seq(Line), Len(log') = last.end, last.end >= Len(log),
           last.bytes = 0 => last.end = EndOf(n - 1),
           last.bytes > 0 => last.end > EndOf(n - 1),
           last.bytes <= MaxBytes \/ last.end <= EndOf(n - 1) + 1
    PROVE  FilesTyped' /\ Ends'
<1>0. PICK m \in Nat : m = Len(files)  BY DEF FilesTyped
<1>1. /\ DOMAIN files = 1 .. m /\ \A i \in 1 .. m : files[i] \in File
      /\ Len(log) \in Nat /\ n \in {m, m + 1}
  BY <1>0 DEF FilesTyped
<1>2. \A i \in 1 .. n : i # n => i \in DOMAIN files /\ files[i] \in File
  <2> SUFFICES ASSUME NEW i \in 1 .. n, i # n PROVE i \in DOMAIN files /\ files[i] \in File
    OBVIOUS
  <2>1. i \in 1 .. m  BY <1>1
  <2>2. QED  BY <1>1, <2>1
<1>3. files' \in Seq(File) /\ Len(files') = n /\ DOMAIN files' = 1 .. n
  <2>1. files' \in [1 .. n -> File]  BY <1>2 DEF LastIs
  <2>2. QED  BY <2>1
<1>4. files' # <<>> /\ files'[n] = last /\ \A i \in 1 .. n : i # n => files'[i] = files[i]
  BY <1>3 DEF LastIs
<1>5. \A i, j \in DOMAIN files' : i <= j => files'[i].end <= files'[j].end
  <2> SUFFICES ASSUME NEW i \in 1 .. n, NEW j \in 1 .. n, i <= j
               PROVE  files'[i].end <= files'[j].end
    BY <1>3
  <2>1. CASE j # n
    <3>1. i # n  BY <2>1
    <3>2. QED  BY <1>2, <1>4, <2>1, <3>1 DEF Ends, Divided
  <2>2. CASE j = n /\ i # n
    <3>1. i \in DOMAIN files /\ i \in 0 .. Len(files) /\ i # 0
      <4>1. i \in DOMAIN files  BY <1>2, <2>2
      <4>2. QED  BY <1>0, <1>1, <4>1
    <3>2. EndOf(i) \in 0 .. Len(log) /\ EndOf(i) = files[i].end  BY <3>1, EndsInLog DEF EndOf, Ends
    <3>3. files'[i].end = EndOf(i) /\ files'[j].end = last.end  BY <1>4, <2>2, <3>2
    <3>4. last.end \in Nat  BY DEF File
    <3>5. QED  BY <1>1, <3>2, <3>3, <3>4
  <2>3. CASE j = n /\ i = n
    BY <1>4, <2>3 DEF File
  <2>4. QED  BY <2>1, <2>2, <2>3
<1>6. ASSUME NEW i \in 1 .. n
      PROVE  /\ files'[i].bytes = 0 => files'[i].end = EndOf(i - 1)'
             /\ files'[i].bytes > 0 => files'[i].end > EndOf(i - 1)'
             /\ files'[i].bytes <= MaxBytes \/ files'[i].end <= EndOf(i - 1)' + 1
  <2>1. EndOf(i - 1)' = EndOf(i - 1)
    <3>1. i - 1 = 0 \/ (i - 1 \in 1 .. n /\ i - 1 # n)  OBVIOUS
    <3>2. QED  BY <1>4, <3>1 DEF EndOf
  <2>2. CASE i = n
    BY <1>4, <2>1, <2>2
  <2>3. CASE i # n
    <3>1. i \in DOMAIN files /\ files'[i] = files[i]  BY <1>2, <1>4, <2>3
    <3>2. QED  BY <2>1, <3>1 DEF Ends, Divided
  <2>4. QED  BY <2>2, <2>3
<1>7. Ends'  BY <1>3, <1>4, <1>5, <1>6 DEF Ends, Divided
<1>8. QED  BY <1>3, <1>7 DEF FilesTyped

-----------------------------------------------------------------------------
(* The steps of one call. *)

\* While a call is in progress, or begins, the others are not: they hold nothing.
LEMMA OthersHold ==
    ASSUME Tidy, NEW a \in Appends, NEW l \in {"read", "write", "returned", "raised"}, Goto(a, l),
           a \in InProgress \/ InProgress = {},
           \A b \in Appends \ {a} : read'[b] = read[b] /\ got'[b] = got[b]
    PROVE  /\ Alone' /\ \A b \in Appends \ {a} : Holding(b)'
           /\ pc' \in [Appends -> {"idle", "read", "write", "returned", "raised"}]
           /\ pc'[a] = l /\ \A b \in Appends \ {a} : pc'[b] = pc[b]
<1>1. /\ pc' \in [Appends -> {"idle", "read", "write", "returned", "raised"}]
      /\ pc'[a] = l /\ \A b \in Appends \ {a} : pc'[b] = pc[b]
  BY DEF Goto, Tidy, Typed, CallsTyped
<1>2. \A b \in Appends \ {a} : pc[b] \notin {"read", "write"}
  BY DEF Tidy, Alone, InProgress
<1>3. QED  BY <1>1, <1>2 DEF Tidy, Alone, InProgress, Holding

\* A call that has not returned may go on as long as the files stay as they are.
LEMMA FilesStay ==
    ASSUME Tidy, NEW a \in Appends, pc[a] \notin {"returned", "raised"},
           UNCHANGED <<regime, log, files>>,
           \A b \in Appends \ {a} : pc'[b] = pc[b]
    PROVE  FilesTyped' /\ Ends' /\ Whole'
<1>1. FilesTyped'  BY DEF Tidy, Typed, FilesTyped
<1>2. Ends'  BY DEF Tidy, Ends, Divided, EndOf
<1>3. \A i \in DOMAIN log : log[i].by \in Appends
  <2>1. \A i \in DOMAIN log : log[i] \in Line  BY DEF Tidy, Typed, FilesTyped
  <2>2. QED  BY <2>1 DEF Line
<1>4. Whole'  BY <1>3 DEF Tidy, Whole, ValidChain, Legible
<1>5. QED  BY <1>1, <1>2, <1>4

LEMMA ListKeeps ==
    ASSUME Tidy, Orderly, NEW a \in Appends, UNCHANGED regime, List(a)
    PROVE  Tidy'
<1>1. InProgress = {}
  <2>1. IsFiniteSet(InProgress)
    BY AppendsAssumption, FS_Subset DEF InProgress
  <2>2. Cardinality(InProgress) \in Nat  BY <2>1, FS_CardinalityType
  <2>3. Cardinality(InProgress) = 0  BY <2>2 DEF List, Orderly
  <2>4. QED  BY <2>1, <2>3, FS_EmptySet
<1>2. /\ pc[a] = "idle" /\ Goto(a, "read") /\ UNCHANGED <<log, files, read, got, target>>
      /\ listed' = [listed EXCEPT ![a] = Len(files)]
  BY DEF List
<1>3. /\ Alone' /\ \A b \in Appends \ {a} : Holding(b)'
      /\ pc' \in [Appends -> {"idle", "read", "write", "returned", "raised"}]
      /\ pc'[a] = "read" /\ \A b \in Appends \ {a} : pc'[b] = pc[b]
  BY <1>1, <1>2, OthersHold
<1>4. FilesTyped' /\ Ends' /\ Whole'  BY <1>2, <1>3, FilesStay
<1>5. Len(files) \in Nat  BY DEF Tidy, Typed, FilesTyped
<1>6. CallsTyped'  BY <1>2, <1>3, <1>5 DEF Tidy, Typed, CallsTyped
<1>7. Holding(a)'
  <2>1. read[a] = 0 /\ got[a] = <<>>  BY <1>2 DEF Tidy, Holding
  <2>2. SubSeq(log, 1, 0) = <<>>  BY SubSeqEmpty
  <2>3. listed'[a] = Len(files)  BY <1>2 DEF Tidy, Typed, CallsTyped
  <2>4. QED  BY <1>2, <1>3, <1>5, <2>1, <2>2, <2>3 DEF Holding, EndOf
<1>8. QED  BY <1>3, <1>4, <1>6, <1>7 DEF Tidy, Typed

\* What a call has read is the log up to the end of the file.
LEMMA ReadKeeps ==
    ASSUME Tidy, NEW a \in Appends, UNCHANGED regime, Read(a)
    PROVE  Tidy'
<1> DEFINE lines == got[a] \o LinesOf(read[a] + 1)
<1>1. /\ pc[a] = "read" /\ read[a] < listed[a] /\ UNCHANGED <<log, files, listed, target>>
      /\ \/ /\ got' = [got EXCEPT ![a] = lines] /\ read' = [read EXCEPT ![a] = @ + 1]
            /\ UNCHANGED pc
         \/ Goto(a, "raised") /\ UNCHANGED <<got, read>>
  BY DEF Read
<1>2. a \in InProgress  BY <1>1 DEF InProgress
<1>4. CASE Goto(a, "raised") /\ UNCHANGED <<got, read>>
  <2>1. /\ Alone' /\ \A b \in Appends \ {a} : Holding(b)'
        /\ pc' \in [Appends -> {"idle", "read", "write", "returned", "raised"}]
        /\ pc'[a] = "raised" /\ \A b \in Appends \ {a} : pc'[b] = pc[b]
    BY <1>2, <1>4, OthersHold
  <2>2. FilesTyped' /\ Ends' /\ Whole'  BY <1>1, <2>1, FilesStay
  <2>3. CallsTyped'  BY <1>1, <1>4, <2>1 DEF Tidy, Typed, CallsTyped
  <2>4. Holding(a)'  BY <2>1 DEF Holding
  <2>5. QED  BY <2>1, <2>2, <2>3, <2>4 DEF Tidy, Typed
<1>5. CASE got' = [got EXCEPT ![a] = lines] /\ read' = [read EXCEPT ![a] = @ + 1] /\ UNCHANGED pc
  <2>1. /\ read[a] \in Nat /\ read[a] + 1 \in 1 .. Len(files) /\ read[a] \in 0 .. Len(files)
        /\ read[a] + 1 \in 0 .. Len(files) /\ (read[a] + 1) - 1 = read[a]
        /\ listed[a] = Len(files) /\ got[a] = SubSeq(log, 1, EndOf(read[a]))
    <3>1. /\ read[a] \in Nat /\ Len(files) \in Nat /\ listed[a] = Len(files)
          /\ got[a] = SubSeq(log, 1, EndOf(read[a]))
      BY <1>1 DEF Tidy, Typed, FilesTyped, CallsTyped, Holding
    <3>2. QED  BY <1>1, <3>1
  <2>2. PICK k, n \in 0 .. Len(log) : k = EndOf(read[a]) /\ n = EndOf(read[a] + 1)
    BY <2>1, EndsInLog DEF Tidy, Ends, Typed
  <2>3. k <= n
    <3>1. files[read[a] + 1] \in File  BY <2>1 DEF Tidy, Typed, FilesTyped
    <3>2. files[read[a] + 1].bytes \in Nat /\ n = files[read[a] + 1].end
      BY <2>1, <2>2, <3>1 DEF File, EndOf
    <3>3. read[a] + 1 \in DOMAIN files  BY <2>1 DEF Tidy, Typed, FilesTyped
    <3>4. /\ files[read[a] + 1].bytes = 0 => files[read[a] + 1].end = EndOf((read[a] + 1) - 1)
          /\ files[read[a] + 1].bytes > 0 => files[read[a] + 1].end > EndOf((read[a] + 1) - 1)
      BY <3>3 DEF Tidy, Ends, Divided
    <3>5. n = k \/ n > k  BY SMTT(30), <2>1, <2>2, <3>2, <3>4
    <3>6. QED  BY <3>5
  <2>4. lines = SubSeq(log, 1, n)
    <3>1. LinesOf(read[a] + 1) = SubSeq(log, k + 1, n)
      BY <2>1, <2>2 DEF LinesOf
    <3>2. log \in Seq(Line) /\ Len(log) \in Nat  BY DEF Tidy, Typed, FilesTyped
    <3>3. 1 \in 1 .. Len(log) + 1 /\ k \in 1 - 1 .. Len(log) /\ n \in k .. Len(log)
      BY <2>2, <2>3, <3>2
    <3>4. SubSeq(log, 1, k) \o SubSeq(log, k + 1, n) = SubSeq(log, 1, n)
      BY <3>2, <3>3, ConcatAdjacentSubSeq
    <3>5. QED  BY <2>1, <2>2, <3>1, <3>4
  <2>5. lines \in Seq(Line)
    <3>1. log \in Seq(Line) /\ \A i \in 1 .. n : log[i] \in Line
      BY <2>2 DEF Tidy, Typed, FilesTyped
    <3>2. 1 \in Int /\ n \in Int  BY <2>2
    <3>3. SubSeq(log, 1, n) \in Seq(Line)  BY <3>1, <3>2, SubSeqProperties
    <3>4. QED  BY <2>4, <3>3
  <2> HIDE DEF lines
  <2>6. got'[a] = lines /\ read'[a] = read[a] + 1
    BY <1>5 DEF Tidy, Typed, CallsTyped
  <2>7. CallsTyped'  BY <1>1, <1>5, <2>5 DEF Tidy, Typed, CallsTyped
  <2>8. FilesTyped' /\ Ends' /\ Whole' /\ Alone'
    BY <1>1, <1>5, FilesStay DEF Tidy, Alone, InProgress
  <2>9. Holding(a)'
    <3>1. EndOf(read[a])' = n  BY <1>1, <2>2, <2>6 DEF EndOf
    <3>2. QED  BY <1>1, <1>5, <2>1, <2>4, <2>6, <3>1 DEF Holding
  <2>10. \A b \in Appends \ {a} : Holding(b)'
    <3>1. \A b \in Appends \ {a} : pc[b] \notin {"read", "write"}
      BY <1>2 DEF Tidy, Alone, InProgress
    <3>2. \A b \in Appends \ {a} : read'[b] = read[b] /\ got'[b] = got[b]
      BY <1>5 DEF Tidy, Typed, CallsTyped
    <3>3. QED  BY <1>5, <3>1, <3>2 DEF Tidy, Holding
  <2>11. QED  BY <2>7, <2>8, <2>9, <2>10 DEF Tidy, Typed
<1>6. QED  BY <1>1, <1>4, <1>5

\* A call that has read every file it listed has read the log.
LEMMA WritePathKeeps ==
    ASSUME Tidy, NEW a \in Appends, UNCHANGED regime, WritePath(a)
    PROVE  Tidy'
<1> DEFINE n == CASE files = <<>> -> 1
                  [] files # <<>> /\ Full(a) -> Len(files) + 1
                  [] OTHER -> Len(files)
<1>1. /\ pc[a] = "read" /\ read[a] = listed[a] /\ UNCHANGED <<log, files, listed, read, got>>
      /\ target' = [target EXCEPT ![a] = n] /\ Goto(a, "write")
  BY DEF WritePath
<1>2. a \in InProgress  BY <1>1 DEF InProgress
<1>3. /\ Alone' /\ \A b \in Appends \ {a} : Holding(b)'
      /\ pc' \in [Appends -> {"idle", "read", "write", "returned", "raised"}]
      /\ pc'[a] = "write" /\ \A b \in Appends \ {a} : pc'[b] = pc[b]
  BY <1>1, <1>2, OthersHold
<1>4. /\ n \in Nat /\ n >= 1 /\ n \in {Len(files), Len(files) + 1}
      /\ n = Len(files) => ~Full(a)
  <2>1. Len(files) \in Nat /\ (files = <<>> <=> Len(files) = 0)
    BY DEF Tidy, Typed, FilesTyped
  <2>2. QED  BY <2>1
<1> HIDE DEF n
<1>5. FilesTyped' /\ Ends' /\ Whole'  BY <1>1, <1>3, FilesStay
<1>6. CallsTyped'  BY <1>1, <1>3, <1>4 DEF Tidy, Typed, CallsTyped
<1>7. Holding(a)'
  <2>1. read[a] = Len(files) /\ got[a] = SubSeq(log, 1, EndOf(read[a]))
    BY <1>1 DEF Tidy, Holding
  <2>2. EndOf(Len(files)) = Len(log)  BY EndsInLog DEF Tidy, Ends, Typed, FilesTyped
  <2>3. got[a] = log  BY <2>1, <2>2, SubSeqFull DEF Tidy, Typed, FilesTyped
  <2>4. target'[a] = n  BY <1>1 DEF Tidy, Typed, CallsTyped
  <2>5. QED  BY <1>1, <1>3, <1>4, <2>3, <2>4 DEF Holding, Full
<1>8. QED  BY <1>3, <1>5, <1>6, <1>7 DEF Tidy, Typed

\* A line is chained to what the call has read, which is all there is.
LEMMA ChainGrows ==
    ASSUME Tidy, Orderly, NEW a \in Appends, got[a] = log
    PROVE  /\ NewLine(a) \in Line /\ NewLine(a).by = a /\ NewLine(a).tail = "newline"
           /\ ValidChain(Append(log, NewLine(a)))
<1>1. log \in Seq(Line) /\ Len(log) \in Nat /\ (log = <<>> <=> Len(log) = 0) /\ DOMAIN log = 1 .. Len(log)
  BY DEF Tidy, Typed, FilesTyped
<1>2. NewLine(a) = [seq |-> Len(log) + 1, by |-> a, tail |-> "newline",
                    prev |-> IF log = <<>> THEN None ELSE Digest[log[Len(log)].by]]
  BY DEF NewLine
<1>3. NewLine(a).prev \in Digests
  <2>1. CASE log = <<>>
    BY <1>2, <2>1 DEF Digests
  <2>2. CASE log # <<>>
    <3>1. log[Len(log)] \in Line  BY <1>1, <2>2
    <3>2. log[Len(log)].by \in Appends  BY <3>1 DEF Line
    <3>3. QED  BY <1>2, <2>2, <3>2 DEF Digests
  <2>3. QED  BY <2>1, <2>2
<1>4. NewLine(a) \in Line  BY <1>1, <1>2, <1>3 DEF Line
<1>5. /\ Len(Append(log, NewLine(a))) = Len(log) + 1
      /\ DOMAIN Append(log, NewLine(a)) = 1 .. (Len(log) + 1)
      /\ \A i \in 1 .. Len(log) : Append(log, NewLine(a))[i] = log[i]
      /\ Append(log, NewLine(a))[Len(log) + 1] = NewLine(a)
  BY <1>1, <1>4, AppendProperties
<1>6. ValidChain(Append(log, NewLine(a)))
  <2> DEFINE s == Append(log, NewLine(a))
  <2> SUFFICES ASSUME NEW i \in 1 .. (Len(log) + 1)
               PROVE  /\ Legible(s[i]) /\ s[i].seq = i
                      /\ s[i].prev = IF i = 1 THEN None ELSE Digest[s[i - 1].by]
    BY <1>5 DEF ValidChain
  <2>1. CASE i \in 1 .. Len(log)
    <3>1. /\ Legible(log[i]) /\ log[i].seq = i
          /\ log[i].prev = IF i = 1 THEN None ELSE Digest[log[i - 1].by]
      BY <1>1, <2>1 DEF Tidy, Whole, ValidChain
    <3>2. s[i] = log[i]  BY <1>5, <2>1
    <3>3. CASE i = 1
      BY <3>1, <3>2, <3>3
    <3>4. CASE i # 1
      <4>1. i - 1 \in 1 .. Len(log)  BY <1>1, <2>1, <3>4
      <4>2. s[i - 1] = log[i - 1]  BY <1>5, <4>1
      <4>3. QED  BY <3>1, <3>2, <3>4, <4>2
    <3>5. QED  BY <3>3, <3>4
  <2>2. CASE i = Len(log) + 1
    <3>1. s[i] = NewLine(a) /\ i - 1 = Len(log)  BY <1>1, <1>5, <2>2
    <3>2. Legible(NewLine(a)) /\ NewLine(a).seq = i  BY <1>2, <2>2 DEF Legible, Orderly
    <3>3. CASE log = <<>>
      <4>1. i = 1  BY <1>1, <2>2, <3>3
      <4>2. QED  BY <1>2, <3>1, <3>2, <3>3, <4>1
    <3>4. CASE log # <<>>
      <4>1. i # 1 /\ Len(log) \in 1 .. Len(log)  BY <1>1, <2>2, <3>4
      <4>2. s[i - 1] = log[Len(log)]  BY <1>5, <3>1, <4>1
      <4>3. QED  BY <1>2, <3>1, <3>2, <3>4, <4>1, <4>2
    <3>5. QED  BY <3>3, <3>4
  <2>3. QED  BY <1>1, <2>1, <2>2
<1>7. QED  BY <1>2, <1>4, <1>6

\* Without lines that lack their newline, a line goes behind all others.
LEMMA PutAtEnd ==
    ASSUME Tidy, NEW a \in Appends, pc[a] = "write", NEW line \in Line, NEW bytes,
           Put(target[a], line, bytes)
    PROVE  /\ log' = Append(log, line)
           /\ LastIs(target[a],
                     [end |-> Len(log) + 1, bytes |-> Opened(target[a])[target[a]].bytes + bytes])
<1> DEFINE n == target[a]
<1>1. n \in Nat /\ n >= 1 /\ n \in {Len(files), Len(files) + 1}
  BY DEF Tidy, Typed, CallsTyped, Holding
<1>2. /\ Opened(n) \in Seq(File) /\ Len(Opened(n)) = n /\ Opened(n)[n].end = Len(log)
      /\ \A i \in 1 .. (n - 1) : Opened(n)[i] = files[i]
  BY <1>1, OpenedFiles DEF Tidy, Ends, Typed
<1>3. ~EndsBare(n)
  <2> SUFFICES ASSUME n <= Len(files), files[n].bytes > 0
               PROVE  log[files[n].end].tail = "newline"
    BY DEF EndsBare
  <2>1. n = Len(files) /\ n \in DOMAIN files /\ files # <<>> /\ (n - 1) \in 0 .. Len(files)
    BY <1>1 DEF Tidy, Typed, FilesTyped
  <2>2. files[n].end = Len(log) /\ files[n].end > EndOf(n - 1)
    BY <2>1 DEF Tidy, Ends, Divided
  <2>3. EndOf(n - 1) \in 0 .. Len(log)  BY <2>1, EndsInLog DEF Tidy, Ends, Typed
  <2>4. files[n].end \in DOMAIN log
    <3>1. log \in Seq(Line) /\ DOMAIN log = 1 .. Len(log) /\ Len(log) \in Nat
      BY DEF Tidy, Typed, FilesTyped
    <3>2. QED  BY <2>2, <2>3, <3>1
  <2>5. QED  BY <2>4 DEF Tidy, Whole
<1>4. Insert(n, line, bytes)  BY <1>3 DEF Put
<1>5. log' = Append(log, line)
  <2>1. log \in Seq(Line) /\ Len(log) \in Nat  BY DEF Tidy, Typed, FilesTyped
  <2>2. log' = SubSeq(log, 1, Len(log)) \o <<line>> \o SubSeq(log, Len(log) + 1, Len(log))
    BY <1>2, <1>4 DEF Insert
  <2>3. SubSeq(log, 1, Len(log)) = log  BY <2>1, SubSeqFull
  <2>4. SubSeq(log, Len(log) + 1, Len(log)) = <<>>  BY <2>1, SubSeqEmpty
  <2>5. log \o <<line>> = Append(log, line) /\ Append(log, line) \in Seq(Line)
    BY <2>1, AppendIsConcat, AppendProperties
  <2>6. QED  BY <2>2, <2>3, <2>4, <2>5, ConcatEmptySeq
<1>6. LastIs(n, [end |-> Len(log) + 1, bytes |-> Opened(n)[n].bytes + bytes])
  <2> HIDE DEF n
  <2>1. DOMAIN Opened(n) = 1 .. n  BY <1>2
  <2>2. files' = [i \in 1 .. n |->
                    [end |-> IF i >= n THEN Opened(n)[i].end + 1 ELSE Opened(n)[i].end,
                     bytes |-> IF i = n THEN Opened(n)[i].bytes + bytes ELSE Opened(n)[i].bytes]]
    BY <1>4, <2>1 DEF Insert
  <2>3. \A i \in 1 .. n : (i >= n <=> i = n) /\ (i # n => Opened(n)[i] = files[i])
    BY <1>1, <1>2
  <2>4. \A i \in 1 .. n : i # n => files[i] = [end |-> files[i].end, bytes |-> files[i].bytes]
    <3>1. \A i \in 1 .. n : Opened(n)[i] \in File  BY <1>2
    <3>2. QED  BY <2>3, <3>1 DEF File
  <2>5. QED  BY <1>2, <2>2, <2>3, <2>4 DEF LastIs
<1>7. QED  BY <1>5, <1>6

\* The line goes behind all others, with the number and the digest that belong there.
LEMMA WriteKeeps ==
    ASSUME Tidy, Orderly, NEW a \in Appends, UNCHANGED regime, Write(a)
    PROVE  /\ Tidy' /\ log' = Append(log, NewLine(a)) /\ NewLine(a) \in Line
           /\ NewLine(a).by = a /\ pc[a] = "write"
           /\ \E l \in {"returned", "raised"} : pc' = [pc EXCEPT ![a] = l]
<1> DEFINE n == target[a]
           line == NewLine(a)
<1>0. PICK l \in {"returned", "raised"} : Goto(a, l)  BY DEF Write
<1>1. /\ pc[a] = "write" /\ Put(n, line, Size[a]) /\ Goto(a, l)
      /\ UNCHANGED <<listed, read, got, target>>
  BY <1>0 DEF Write
<1>2. /\ got[a] = log /\ n \in Nat /\ n >= 1 /\ n \in {Len(files), Len(files) + 1}
      /\ n = Len(files) => ~Full(a)
  BY <1>1 DEF Tidy, Typed, CallsTyped, Holding
<1>3. line \in Line /\ line.by = a /\ line.tail = "newline" /\ ValidChain(Append(log, line))
  BY <1>2, ChainGrows
<1> HIDE DEF line
<1>4. /\ log' = Append(log, line)
      /\ LastIs(n, [end |-> Len(log) + 1, bytes |-> Opened(n)[n].bytes + Size[a]])
  BY <1>1, <1>3, PutAtEnd
<1>5. /\ Alone' /\ \A b \in Appends \ {a} : Holding(b)'
      /\ pc' \in [Appends -> {"idle", "read", "write", "returned", "raised"}]
      /\ pc'[a] = l /\ \A b \in Appends \ {a} : pc'[b] = pc[b]
  <2>1. a \in InProgress  BY <1>1 DEF InProgress
  <2>2. QED  BY <1>1, <2>1, OthersHold
<1>6. /\ log \in Seq(Line) /\ Len(log) \in Nat /\ DOMAIN log = 1 .. Len(log)
      /\ log' \in Seq(Line) /\ Len(log') = Len(log) + 1 /\ DOMAIN log' = 1 .. (Len(log) + 1)
      /\ \A i \in 1 .. Len(log) : log'[i] = log[i]
      /\ log'[Len(log) + 1] = line
  <2>1. log \in Seq(Line) /\ Len(log) \in Nat /\ DOMAIN log = 1 .. Len(log)
    BY DEF Tidy, Typed, FilesTyped
  <2>2. QED  BY <1>3, <1>4, <2>1, AppendProperties
<1>7. FilesTyped' /\ Ends'
  <2> DEFINE last == [end |-> Len(log) + 1, bytes |-> Opened(n)[n].bytes + Size[a]]
  <2>1. /\ Opened(n) \in Seq(File) /\ Len(Opened(n)) = n
        /\ n = Len(files) => Opened(n) = files
        /\ n # Len(files) => Opened(n)[n].bytes = 0
    BY <1>2, OpenedFiles DEF Tidy, Ends, Typed
  <2>2. Opened(n)[n].bytes \in Nat
    <3>1. Opened(n)[n] \in File  BY <1>2, <2>1
    <3>2. QED  BY <3>1 DEF File
  <2>3. Size[a] \in Nat /\ Size[a] > 0 /\ MaxBytes \in Nat  BY Sizes
  <2>4. last \in File /\ last.bytes > 0 /\ last.end = Len(log) + 1
    BY <1>6, <2>2, <2>3 DEF File
  <2>5. Len(files) \in Nat /\ n - 1 \in 0 .. Len(files)
    BY <1>2 DEF Tidy, Typed, FilesTyped
  <2>6. EndOf(n - 1) \in 0 .. Len(log) /\ (n - 1 = Len(files) => EndOf(n - 1) = Len(log))
    BY <2>5, EndsInLog DEF Tidy, Ends, Typed
  <2>7. last.bytes <= MaxBytes \/ last.end <= EndOf(n - 1) + 1
    <3>1. CASE n = Len(files) + 1
      BY <1>6, <2>4, <2>5, <2>6, <3>1
    <3>2. CASE n = Len(files)
      <4>1. n \in DOMAIN files /\ files # <<>>  BY <1>2, <3>2 DEF Tidy, Typed, FilesTyped
      <4>2. CASE files[n].bytes = 0
        <5>1. EndOf(n - 1) = Len(log)  BY <3>2, <4>1, <4>2 DEF Tidy, Ends, Divided
        <5>2. QED  BY <1>6, <2>4, <5>1
      <4>3. CASE files[n].bytes > 0
        <5>1. ~(files[n].bytes + Size[a] > MaxBytes)  BY <1>2, <3>2, <4>3 DEF Full
        <5>2. Opened(n)[n].bytes = files[n].bytes  BY <2>1, <3>2
        <5>3. QED  BY <2>2, <2>3, <5>1, <5>2
      <4>4. files[n].bytes \in Nat  BY <2>1, <2>2, <3>2
      <4>5. QED  BY <4>2, <4>3, <4>4
    <3>3. QED  BY <1>2, <3>1, <3>2
  <2>8. LastIs(n, last)  BY <1>4
  <2> HIDE DEF last
  <2>9. Len(log') = last.end /\ last.end >= Len(log) /\ last.end > EndOf(n - 1) /\ last.bytes # 0
    BY <1>6, <2>4, <2>6
  <2> HIDE DEF n
  <2>10. QED  BY <1>2, <1>6, <2>4, <2>7, <2>8, <2>9, LastFile DEF Tidy, Typed
<1>8. Whole'
  <2>1. ValidChain(log)'  BY <1>3, <1>4 DEF ValidChain, Legible
  <2>2. ASSUME NEW i \in 1 .. (Len(log) + 1)
        PROVE  log'[i].tail = "newline" /\ pc'[log'[i].by] \in {"returned", "raised"}
    <3>1. CASE i \in 1 .. Len(log)
      <4>1. log[i] \in Line  BY <1>6, <3>1
      <4>2. log[i].by \in Appends /\ pc[log[i].by] \in {"returned", "raised"} /\ log[i].tail = "newline"
        BY <1>6, <3>1, <4>1 DEF Line, Tidy, Whole
      <4>3. QED  BY <1>5, <1>6, <3>1, <4>2
    <3>2. CASE i = Len(log) + 1
      BY <1>3, <1>5, <1>6, <3>2
    <3>3. QED  BY <1>6, <3>1, <3>2
  <2>3. QED  BY <1>6, <2>1, <2>2 DEF Whole
<1>9. CallsTyped'  BY <1>1, <1>5 DEF Tidy, Typed, CallsTyped
<1>10. Holding(a)'  BY <1>5 DEF Holding
<1>11. QED
  BY <1>0, <1>1, <1>3, <1>4, <1>5, <1>7, <1>8, <1>9, <1>10 DEF Tidy, Typed, Goto, line

\* A call that ends early leaves an empty file behind at most.
LEMMA StopKeeps ==
    ASSUME Tidy, NEW a \in Appends, UNCHANGED regime, Stop(a)
    PROVE  Tidy'
<1>1. /\ a \in InProgress /\ pc[a] \notin {"returned", "raised"} /\ Goto(a, "raised")
      /\ UNCHANGED <<log, listed, read, got, target>>
  BY DEF Stop, InProgress
<1>2. /\ Alone' /\ \A b \in Appends \ {a} : Holding(b)'
      /\ pc' \in [Appends -> {"idle", "read", "write", "returned", "raised"}]
      /\ pc'[a] = "raised" /\ \A b \in Appends \ {a} : pc'[b] = pc[b]
  BY <1>1, OthersHold
<1>3. CallsTyped'  BY <1>1, <1>2 DEF Tidy, Typed, CallsTyped
<1>4. Holding(a)'  BY <1>2 DEF Holding
<1>5. CASE UNCHANGED files
  <2>1. FilesTyped' /\ Ends' /\ Whole'  BY <1>1, <1>2, <1>5, FilesStay
  <2>2. QED  BY <1>2, <1>3, <1>4, <2>1 DEF Tidy, Typed
<1>6. CASE pc[a] = "write" /\ files' = Opened(target[a])
  <2> DEFINE n == target[a]
  <2>1. n \in Nat /\ n >= 1 /\ n \in {Len(files), Len(files) + 1}
    BY <1>6 DEF Tidy, Typed, CallsTyped, Holding
  <2>2. CASE n = Len(files)
    <3>1. files' = files  BY <1>6, <2>1, <2>2, OpenedFiles DEF Tidy, Ends, Typed
    <3>2. QED  BY <1>5, <3>1
  <2>3. CASE n = Len(files) + 1
    <3> DEFINE last == [end |-> Len(log), bytes |-> 0]
    <3>1. /\ Len(files) \in Nat /\ Len(log) \in Nat /\ log \in Seq(Line) /\ files \in Seq(File)
          /\ MaxBytes \in Nat
      BY Sizes DEF Tidy, Typed, FilesTyped
    <3>2. last \in File /\ last.bytes = 0 /\ last.end = Len(log)  BY <3>1 DEF File
    <3>3. LastIs(n, last)
      <4>1. files' = Append(files, last)  BY <1>6, <2>3, <3>1 DEF Opened
      <4>2. /\ files' \in Seq(File) /\ Len(files') = n /\ DOMAIN files' = 1 .. n
            /\ \A i \in 1 .. Len(files) : files'[i] = files[i]
            /\ files'[n] = last
        BY <2>3, <3>1, <3>2, <4>1, AppendProperties
      <4>3. \A i \in 1 .. n : i # n => i \in 1 .. Len(files)  BY <2>3, <3>1
      <4>4. QED  BY <4>2, <4>3 DEF LastIs
    <3>4. EndOf(n - 1) = Len(log) /\ n - 1 = Len(files)
      <4>1. n - 1 = Len(files) /\ n - 1 \in 0 .. Len(files)  BY <2>3, <3>1
      <4>2. QED  BY <4>1, EndsInLog DEF Tidy, Ends, Typed
    <3> HIDE DEF last
    <3>5. FilesTyped' /\ Ends'
      <4>1. /\ Len(log') = last.end /\ last.end >= Len(log) /\ log' \in Seq(Line)
            /\ last.bytes = 0 => last.end = EndOf(n - 1)
            /\ last.bytes > 0 => last.end > EndOf(n - 1)
            /\ last.bytes <= MaxBytes
        BY <1>1, <3>1, <3>2, <3>4
      <4> HIDE DEF n
      <4>2. QED  BY <2>1, <3>2, <3>3, <4>1, LastFile DEF Tidy, Typed
    <3>6. Whole'
      <4>1. \A i \in DOMAIN log : log[i] \in Line  BY <3>1
      <4>2. \A i \in DOMAIN log : log[i].by \in Appends  BY <4>1 DEF Line
      <4>3. QED  BY <1>1, <1>2, <4>2 DEF Tidy, Whole, ValidChain, Legible
    <3>7. QED  BY <1>2, <1>3, <1>4, <3>5, <3>6 DEF Tidy, Typed
  <2>4. QED  BY <2>1, <2>2, <2>3
<1>7. QED  BY <1>5, <1>6 DEF Stop

\* A step of an orderly behaviour.
LEMMA StepKeeps ==
    ASSUME Tidy, Orderly, NEW a \in Appends, UNCHANGED regime, Step(a)
    PROVE  Tidy'
<1>1. ~Tear(a)  BY DEF Tear, Orderly
<1>2. QED
  BY <1>1, ListKeeps, ReadKeeps, WritePathKeeps, WriteKeeps, StopKeeps DEF Step

LEMMA Steps == Inv /\ [Next]_vars => Inv'
<1> SUFFICES ASSUME Inv, [Next]_vars, Orderly' PROVE Tidy'
  BY DEF Inv
<1>1. Orderly /\ Tidy
  <2>1. regime' = regime  BY DEF Next, AllEnded, vars
  <2>2. QED  BY <2>1 DEF Inv, Orderly
<1>2. CASE UNCHANGED vars
  BY <1>1, <1>2 DEF vars, Tidy, Typed, FilesTyped, CallsTyped, Ends, Divided, EndOf, Whole, ValidChain,
                    Legible, Alone, InProgress, Holding, Full
<1>3. CASE UNCHANGED regime /\ \E a \in Appends : Step(a)
  BY <1>1, <1>3, StepKeeps
<1>4. QED  BY <1>2, <1>3 DEF Next, AllEnded

LEMMA Holds == Spec => []Inv
<1>1. QED  BY Begins, Steps, PTL DEF Spec

-----------------------------------------------------------------------------
(* What follows. *)

\* Appends that do not overlap, of payloads that do not split when they are read, keep
\* the chain valid, over any number of rotations and though some end early (archive/jsonl.py: append, validate_chain, _write_path).
THEOREM ChainStaysValid == Spec => []OrderlyChainValid
<1>1. Inv => OrderlyChainValid  BY DEF Inv, Tidy, Whole, ChainValid, OrderlyChainValid
<1>2. QED  BY <1>1, Holds, PTL

\* A file grows past max_bytes only when its one line is longer (archive/jsonl.py:
\* _write_path).
THEOREM FilesStayBounded == Spec => []FilesBounded
<1>1. Inv => FilesBounded  BY DEF Inv, Tidy, Ends, Divided, FilesBounded
<1>2. QED  BY <1>1, Holds, PTL

\* What a reader is given and which calls returned follow AuditLog, each step or a
\* stutter (archive/jsonl.py: append, validate_chain).
THEOREM ImplementsAuditLog == Spec => KeepsPromise
<1>1. Init => Promise!Init
  BY DEF Init, Promise!Init, Readable, Returned, ValidChain
<1>2. ASSUME Inv, [Next]_vars
      PROVE  [Promise!Next]_(Promise!vars)
  <2>1. regime' = regime /\ (Orderly' <=> Orderly)
    <3>1. regime' = regime  BY <1>2 DEF Next, AllEnded, vars
    <3>2. QED  BY <3>1 DEF Orderly
  <2>2. CASE ~Orderly
    BY <2>1, <2>2 DEF Promise!vars
  <2>3. CASE UNCHANGED <<log, Returned>>
    BY <2>1, <2>3 DEF Promise!vars, Readable, ValidChain, Legible
  <2>4. CASE Orderly /\ UNCHANGED vars
    BY <2>3, <2>4 DEF vars, Returned
  <2>5. ASSUME Orderly, NEW a \in Appends, Step(a)
        PROVE  [Promise!Next]_(Promise!vars)
    <3>1. Tidy /\ Tidy' /\ pc \in [Appends -> {"idle", "read", "write", "returned", "raised"}]
      BY <1>2, <2>1, <2>5, StepKeeps DEF Inv, Tidy, Typed, CallsTyped
    <3>2. CASE Write(a)
      <4>1. /\ log' = Append(log, NewLine(a)) /\ NewLine(a) \in Line /\ NewLine(a).by = a
            /\ pc[a] = "write"
            /\ \E l \in {"returned", "raised"} : pc' = [pc EXCEPT ![a] = l]
        BY <2>1, <2>5, <3>1, <3>2, WriteKeeps
      <4>2. Returned' \in {Returned, Returned \cup {a}}
        <5>1. PICK l \in {"returned", "raised"} : pc' = [pc EXCEPT ![a] = l]  BY <4>1
        <5>2. CASE l = "returned"
          <6>1. Returned' = Returned \cup {a}  BY <3>1, <5>1, <5>2 DEF Returned
          <6>2. QED  BY <6>1
        <5>3. CASE l = "raised"
          <6>1. Returned' = Returned  BY <3>1, <4>1, <5>1, <5>3 DEF Returned
          <6>2. QED  BY <6>1
        <5>4. QED  BY <5>2, <5>3
      <4>3. /\ Readable = [i \in DOMAIN log |-> log[i].by]
            /\ Readable' = [i \in DOMAIN log' |-> log'[i].by]
        BY <3>1 DEF Tidy, Whole, Readable
      <4>4. /\ log \in Seq(Line) /\ Len(log) \in Nat /\ DOMAIN log = 1 .. Len(log)
            /\ DOMAIN log' = 1 .. (Len(log) + 1)
            /\ \A i \in 1 .. Len(log) : log'[i] = log[i]
            /\ log'[Len(log) + 1] = NewLine(a)
        <5>1. log \in Seq(Line) /\ Len(log) \in Nat /\ DOMAIN log = 1 .. Len(log)
          BY <3>1 DEF Tidy, Typed, FilesTyped
        <5>2. QED  BY <4>1, <5>1, AppendProperties
      <4>5. Readable \in Seq(Appends) /\ Len(Readable) = Len(log)
        <5>1. \A i \in DOMAIN log : log[i] \in Line  BY <4>4
        <5>2. \A i \in DOMAIN log : log[i].by \in Appends  BY <5>1 DEF Line
        <5>3. QED  BY <4>3, <4>4, <5>2
      <4>6. Readable' = Append(Readable, a)
        <5>1. /\ Append(Readable, a) \in Seq(Appends) /\ Len(Append(Readable, a)) = Len(log) + 1
              /\ \A i \in 1 .. Len(log) : Append(Readable, a)[i] = Readable[i]
              /\ Append(Readable, a)[Len(log) + 1] = a
          BY <2>5, <4>5, AppendProperties
        <5>2. Readable' \in Seq(Appends) /\ Len(Readable') = Len(log) + 1
          <6>1. \A i \in DOMAIN log' : log'[i] \in Line  BY <4>1, <4>4
          <6>2. \A i \in DOMAIN log' : log'[i].by \in Appends  BY <6>1 DEF Line
          <6>3. QED  BY <4>3, <4>4, <6>2
        <5>3. \A i \in 1 .. (Len(log) + 1) : Readable'[i] = Append(Readable, a)[i]
          BY <4>1, <4>3, <4>4, <5>1
        <5>4. QED  BY <5>1, <5>2, <5>3, SeqEqual
      <4>7. a \notin Promise!ToSet(Readable)
        <5>1. \A i \in DOMAIN log : pc[log[i].by] \in {"returned", "raised"}  BY <3>1 DEF Tidy, Whole
        <5>2. \A i \in DOMAIN log : log[i].by # a  BY <4>1, <5>1
        <5>3. QED  BY <4>3, <5>2 DEF Promise!ToSet
      <4>8. Promise!Record(a)
        BY <2>1, <2>5, <4>2, <4>6, <4>7 DEF Promise!Record
      <4>9. QED  BY <4>8 DEF Promise!Next
    <3>3. CASE ~Write(a)
      <4>1. log' = log /\ \A b \in Appends : pc'[b] = "returned" <=> pc[b] = "returned"
        BY <2>5, <3>1, <3>3
        DEF Step, List, Read, WritePath, Tear, Stop, Orderly, Goto, InProgress
      <4>2. Returned' = Returned  BY <4>1 DEF Returned
      <4>3. QED  BY <2>3, <4>1, <4>2
    <3>4. QED  BY <3>2, <3>3
  <2>6. QED  BY <1>2, <2>2, <2>4, <2>5 DEF Next, AllEnded
<1>3. QED
  BY <1>1, <1>2, Holds, PTL DEF Spec, KeepsPromise, Promise!Spec

-----------------------------------------------------------------------------
(* Calls that overlap, with failures of every kind.  Nothing is known of what a  *)
(* call has read but that it was in the archive; the archive is never taken      *)
(* away from, lines are put between others, and the ends of the files move with  *)
(* them (`Carry`).                                                               *)

Reading(a) ==
    /\ pc[a] = "idle" => read[a] = 0 /\ got[a] = <<>>
    /\ pc[a] \in {"read", "write"} => read[a] <= listed[a] /\ listed[a] <= Len(files)
    /\ pc[a] = "write" => /\ read[a] = listed[a] /\ target[a] >= 1
                          /\ listed[a] <= target[a] /\ target[a] <= Len(files) + 1

Layout == Typed /\ Divided /\ \A a \in Appends : Reading(a)

\* The file to write is one of the files, or an empty one at the end of the log.
LEMMA OpenedDivides ==
    ASSUME FilesTyped, Divided, NEW n \in Nat, n >= 1, n <= Len(files) + 1
    PROVE  /\ Opened(n) \in Seq(File) /\ Opened(n) # <<>> /\ n \in 1 .. Len(Opened(n))
           /\ Len(Opened(n)) >= Len(files)
           /\ Len(Opened(n)) = Len(files) \/ Len(Opened(n)) = n
           /\ Opened(n)[Len(Opened(n))].end = Len(log)
           /\ \A i \in 1 .. Len(files) : Opened(n)[i] = files[i]
           /\ \A i, j \in 1 .. Len(Opened(n)) : i <= j => Opened(n)[i].end <= Opened(n)[j].end
           /\ \A i \in 1 .. Len(Opened(n)) :
                /\ Opened(n)[i].bytes = 0
                     => Opened(n)[i].end = IF i = 1 THEN 0 ELSE Opened(n)[i - 1].end
                /\ Opened(n)[i].bytes > 0
                     => Opened(n)[i].end > IF i = 1 THEN 0 ELSE Opened(n)[i - 1].end
<1>0. PICK m \in Nat : m = Len(files)  BY DEF FilesTyped
<1>1. DOMAIN files = 1 .. m /\ files \in Seq(File) /\ Len(log) \in Nat
      /\ \A i \in 1 .. m : files[i] \in File
  BY <1>0 DEF FilesTyped
<1>2. CASE n <= m
  <2>1. Opened(n) = files /\ files # <<>>  BY <1>0, <1>1, <1>2 DEF Opened
  <2>2. \A i \in 1 .. m : EndOf(i - 1) = IF i = 1 THEN 0 ELSE files[i - 1].end
    BY <1>0 DEF EndOf
  <2>3. ASSUME NEW i \in 1 .. m
        PROVE  /\ files[i].bytes = 0 => files[i].end = IF i = 1 THEN 0 ELSE files[i - 1].end
               /\ files[i].bytes > 0 => files[i].end > IF i = 1 THEN 0 ELSE files[i - 1].end
    BY <1>1, <2>2 DEF Divided
  <2>4. n \in 1 .. Len(files) /\ Len(files) \in Nat  BY <1>0, <1>2
  <2>5. QED  BY <1>0, <1>1, <2>1, <2>3, <2>4 DEF Divided
<1>3. CASE n = m + 1
  <2> DEFINE last == [end |-> Len(log), bytes |-> 0]
             o == Opened(n)
  <2>1. last \in File /\ last.end = Len(log) /\ last.bytes = 0  BY <1>1 DEF File
  <2>2. o = Append(files, last)
    <3>1. ~(n <= Len(files))  BY <1>0, <1>3
    <3>2. QED  BY <3>1 DEF Opened
  <2> HIDE DEF last
  <2>3. /\ o \in Seq(File) /\ Len(o) = n /\ o[n] = last
        /\ \A i \in 1 .. m : o[i] = files[i]
    BY <1>0, <1>1, <1>3, <2>1, <2>2, AppendProperties
  <2> HIDE DEF o
  <2>4. m # 0 => files[m].end = Len(log)  BY <1>0, <1>1 DEF Divided
  <2>5. \A i \in 1 .. m : files[i].end \in Nat /\ files[i].end <= Len(log)
    <3> SUFFICES ASSUME NEW i \in 1 .. m PROVE files[i].end \in Nat /\ files[i].end <= Len(log)
      OBVIOUS
    <3>1. files[i].end <= files[m].end  BY <1>1 DEF Divided
    <3>2. files[i] \in File  BY <1>1
    <3>3. QED  BY <2>4, <3>1, <3>2 DEF File
  <2>6. \A i, j \in 1 .. n : i <= j => o[i].end <= o[j].end
    <3> SUFFICES ASSUME NEW i \in 1 .. n, NEW j \in 1 .. n, i <= j PROVE o[i].end <= o[j].end
      OBVIOUS
    <3>1. CASE j # n
      <4>1. i \in 1 .. m /\ j \in 1 .. m  BY <1>3, <3>1
      <4>2. QED  BY <1>1, <2>3, <4>1 DEF Divided
    <3>2. CASE j = n /\ i # n
      <4>1. i \in 1 .. m  BY <1>3, <3>2
      <4>2. QED  BY <2>1, <2>3, <2>5, <3>2, <4>1
    <3>3. CASE j = n /\ i = n
      BY <1>1, <2>1, <2>3, <3>3
    <3>4. QED  BY <3>1, <3>2, <3>3
  <2>7. ASSUME NEW i \in 1 .. n
        PROVE  /\ o[i].bytes = 0 => o[i].end = IF i = 1 THEN 0 ELSE o[i - 1].end
               /\ o[i].bytes > 0 => o[i].end > IF i = 1 THEN 0 ELSE o[i - 1].end
    <3>1. CASE i \in 1 .. m
      <4>1. i = 1 \/ i - 1 \in 1 .. m  BY <3>1
      <4>2. EndOf(i - 1) = IF i = 1 THEN 0 ELSE o[i - 1].end
        BY <2>3, <4>1 DEF EndOf
      <4>3. QED  BY <1>1, <2>3, <3>1, <4>2 DEF Divided
    <3>2. CASE i = n
      <4>1. CASE m = 0
        <5>1. files = <<>>  BY <1>0, <1>1, <4>1
        <5>2. Len(log) = 0  BY <5>1 DEF Divided
        <5>3. QED  BY <1>3, <2>1, <2>3, <3>2, <4>1, <5>2
      <4>2. CASE m # 0
        <5>1. i # 1 /\ i - 1 = m /\ m \in 1 .. m  BY <1>3, <3>2, <4>2
        <5>2. o[i - 1].end = Len(log)  BY <2>3, <2>4, <4>2, <5>1
        <5>3. QED  BY <2>1, <2>3, <3>2, <5>1, <5>2
      <4>3. QED  BY <4>1, <4>2
    <3>3. QED  BY <1>3, <3>1, <3>2
  <2>8. o # <<>> /\ n \in 1 .. Len(o) /\ Len(o) >= Len(files)
    BY <1>0, <1>3, <2>3
  <2>9. QED  BY <1>0, <2>1, <2>3, <2>6, <2>7, <2>8 DEF o
<1>4. QED  BY <1>0, <1>2, <1>3

-----------------------------------------------------------------------------
(* How a step carries the lines and the ends of the files along: the lines behind *)
(* `at`, the end of file n, and the ends of the files from n on move by d.        *)

Place(d, at, j) == IF j > at THEN j + d ELSE j

Carry(d, at, n) ==
    /\ d \in {0, 1} /\ at \in 0 .. Len(log)
    /\ Len(log') = Len(log) + d
    /\ \A j \in 1 .. Len(log) :
         /\ log'[Place(d, at, j)].seq = log[j].seq
         /\ log'[Place(d, at, j)].by = log[j].by
         /\ log[j].tail = "cut" => log'[Place(d, at, j)].tail = "cut"
    /\ Len(files') >= Len(files)
    /\ \A m \in 0 .. Len(files) :
         /\ m < n => EndOf(m)' = EndOf(m)
         /\ m <= n => EndOf(m) <= at
         /\ m >= n => EndOf(m)' = EndOf(m) + d /\ at <= EndOf(m)

\* A line of its own was put at the end of file n.
Inserted(at, n, line) ==
    /\ Carry(1, at, n) /\ log'[at + 1] = line
    /\ \A j \in 1 .. Len(log) : log'[Place(1, at, j)].tail = log[j].tail

\* It became a part of the line there.
Joined(at, n) == Carry(0, at, n) /\ Torn'

\* The order of the ends, the beginning of the log included.
LEMMA EndsInOrder ==
    ASSUME FilesTyped, Divided
    PROVE  /\ \A m \in 0 .. Len(files) : EndOf(m) \in 0 .. Len(log)
           /\ EndOf(Len(files)) = Len(log)
           /\ \A m, k \in 0 .. Len(files) : m <= k => EndOf(m) <= EndOf(k)
<1>1. Len(files) \in Nat /\ Len(log) \in Nat /\ DOMAIN files = 1 .. Len(files)
      /\ \A i \in 1 .. Len(files) : files[i] \in File
  BY DEF FilesTyped
<1>2. \A m \in 0 .. Len(files) : EndOf(m) \in 0 .. Len(log)  BY EndsInLog
<1>3. EndOf(Len(files)) = Len(log)
  <2>1. Len(files) \in 0 .. Len(files)  BY <1>1
  <2>2. QED  BY <2>1, EndsInLog
<1>4. ASSUME NEW m \in 0 .. Len(files), NEW k \in 0 .. Len(files), m <= k
      PROVE  EndOf(m) <= EndOf(k)
  <2>1. CASE m = 0
    <3>1. EndOf(m) = 0  BY <2>1 DEF EndOf
    <3>2. EndOf(k) \in 0 .. Len(log)  BY <1>2
    <3>3. QED  BY <1>1, <3>1, <3>2
  <2>2. CASE m # 0
    <3>1. m \in DOMAIN files /\ k \in DOMAIN files  BY <1>1, <1>4, <2>2
    <3>2. EndOf(m) = files[m].end /\ EndOf(k) = files[k].end  BY <1>4, <2>2, <1>1 DEF EndOf
    <3>3. QED  BY <1>4, <3>1, <3>2 DEF Divided
  <2>3. QED  BY <2>1, <2>2
<1>5. QED  BY <1>2, <1>3, <1>4

\* A step that leaves the log alone and opens a file at most.
LEMMA StaysCarried ==
    ASSUME FilesTyped, Divided, log' = log,
           files' = files \/ \E n \in Nat : n >= 1 /\ n <= Len(files) + 1 /\ files' = Opened(n)
    PROVE  /\ FilesTyped' /\ Divided'
           /\ Carry(0, Len(log), Len(files) + 1)
<1>1. Len(files) \in Nat /\ Len(log) \in Nat /\ log \in Seq(Line) /\ DOMAIN files = 1 .. Len(files)
  BY DEF FilesTyped
<1>2. FilesTyped' /\ Divided' /\ Len(files') >= Len(files)
      /\ \A i \in 1 .. Len(files) : files'[i] = files[i]
  <2>1. CASE files' = files
    <3>1. \A m : EndOf(m)' = EndOf(m)  BY <2>1 DEF EndOf
    <3>2. Divided'  BY <2>1, <3>1 DEF Divided
    <3>3. QED  BY <1>1, <2>1, <3>2 DEF FilesTyped
  <2>2. ASSUME NEW n \in Nat, n >= 1, n <= Len(files) + 1, files' = Opened(n)
        PROVE  FilesTyped' /\ Divided' /\ Len(files') >= Len(files)
               /\ \A i \in 1 .. Len(files) : files'[i] = files[i]
    <3>1. /\ files' \in Seq(File) /\ files' # <<>> /\ Len(files') >= Len(files)
          /\ files'[Len(files')].end = Len(log)
          /\ \A i \in 1 .. Len(files) : files'[i] = files[i]
          /\ \A i, j \in 1 .. Len(files') : i <= j => files'[i].end <= files'[j].end
          /\ \A i \in 1 .. Len(files') :
                /\ files'[i].bytes = 0
                     => files'[i].end = IF i = 1 THEN 0 ELSE files'[i - 1].end
                /\ files'[i].bytes > 0
                     => files'[i].end > IF i = 1 THEN 0 ELSE files'[i - 1].end
      BY <2>2, OpenedDivides
    <3>2. \A i \in 1 .. Len(files') : EndOf(i - 1)' = IF i = 1 THEN 0 ELSE files'[i - 1].end
      BY <3>1 DEF EndOf
    <3>3. DOMAIN files' = 1 .. Len(files')  BY <3>1
    <3>4. Divided'  BY <3>1, <3>2, <3>3 DEF Divided
    <3>5. QED  BY <1>1, <3>1, <3>4 DEF FilesTyped
  <2>3. QED  BY <2>1, <2>2
<1>3. \A m \in 0 .. Len(files) : EndOf(m)' = EndOf(m)  BY <1>1, <1>2 DEF EndOf
<1>4. QED  BY <1>1, <1>2, <1>3, EndsInOrder DEF Carry, Place

LEMMA InsertMoves ==
    ASSUME FilesTyped, Divided, NEW n \in Nat, n >= 1, n <= Len(files) + 1,
           NEW line \in Line, NEW bytes \in Nat, bytes > 0, Insert(n, line, bytes)
    PROVE  FilesTyped' /\ Divided' /\ \E at : Inserted(at, n, line)
<1> DEFINE o == Opened(n)
           at == o[n].end
<1>1. PICK L \in Nat, M \in Nat : L = Len(log) /\ M = Len(o) /\ Len(files) \in 0 .. M
                                  /\ n \in 1 .. M /\ (M = Len(files) \/ M = n)
  BY OpenedDivides DEF FilesTyped
<1>2. /\ o \in Seq(File) /\ DOMAIN o = 1 .. M /\ o[M].end = L
      /\ \A i \in 1 .. M : o[i] \in File /\ o[i].end \in Nat /\ o[i].bytes \in Nat
      /\ \A i \in 1 .. Len(files) : o[i] = files[i]
      /\ \A i, j \in 1 .. M : i <= j => o[i].end <= o[j].end
      /\ \A i \in 1 .. M :
           /\ o[i].bytes = 0 => o[i].end = IF i = 1 THEN 0 ELSE o[i - 1].end
           /\ o[i].bytes > 0 => o[i].end > IF i = 1 THEN 0 ELSE o[i - 1].end
  <2>1. /\ o \in Seq(File) /\ DOMAIN o = 1 .. M /\ o[M].end = L
        /\ \A i \in 1 .. Len(files) : o[i] = files[i]
        /\ \A i, j \in 1 .. M : i <= j => o[i].end <= o[j].end
        /\ \A i \in 1 .. M :
             /\ o[i].bytes = 0 => o[i].end = IF i = 1 THEN 0 ELSE o[i - 1].end
             /\ o[i].bytes > 0 => o[i].end > IF i = 1 THEN 0 ELSE o[i - 1].end
    <3>1. /\ o \in Seq(File) /\ o[Len(o)].end = Len(log)
          /\ \A i \in 1 .. Len(files) : o[i] = files[i]
          /\ \A i, j \in 1 .. Len(o) : i <= j => o[i].end <= o[j].end
          /\ \A i \in 1 .. Len(o) :
               /\ o[i].bytes = 0 => o[i].end = IF i = 1 THEN 0 ELSE o[i - 1].end
               /\ o[i].bytes > 0 => o[i].end > IF i = 1 THEN 0 ELSE o[i - 1].end
      BY OpenedDivides
    <3> HIDE DEF o
    <3>2. DOMAIN o = 1 .. Len(o)  BY <3>1
    <3>3. QED  BY <1>1, <3>1, <3>2
  <2>2. \A i \in 1 .. M : o[i] \in File  BY <1>1, <2>1
  <2>3. QED  BY <2>1, <2>2 DEF File
<1>3. at \in 0 .. L  BY <1>1, <1>2
<1>4. /\ log' = SubSeq(log, 1, at) \o <<line>> \o SubSeq(log, at + 1, L)
      /\ files' = [i \in 1 .. M |->
                     [end |-> IF i >= n THEN o[i].end + 1 ELSE o[i].end,
                      bytes |-> IF i = n THEN o[i].bytes + bytes ELSE o[i].bytes]]
  BY <1>1, <1>2 DEF Insert
<1> HIDE DEF o
<1>5. /\ log' \in Seq(Line) /\ Len(log') = L + 1
      /\ log'[at + 1] = line
      /\ \A j \in 1 .. L : log'[Place(1, at, j)] = log[j]
  <2> DEFINE a == at
  <2>0. a \in 0 .. L  BY <1>3
  <2> HIDE DEF a
  <2>1. log \in Seq(Line) /\ \A i \in 1 .. L : log[i] \in Line  BY <1>1 DEF FilesTyped
  <2>2. /\ SubSeq(log, 1, a) \in Seq(Line) /\ Len(SubSeq(log, 1, a)) = a
        /\ \A i \in 1 .. a : SubSeq(log, 1, a)[i] = log[i]
    <3>1. 1 \in Int /\ a \in Int /\ \A i \in 1 .. a : log[i] \in Line  BY <2>0, <2>1
    <3>2. /\ SubSeq(log, 1, a) \in Seq(Line)
          /\ Len(SubSeq(log, 1, a)) = IF 1 <= a THEN a - 1 + 1 ELSE 0
          /\ \A i \in 1 .. a - 1 + 1 : SubSeq(log, 1, a)[i] = log[1 + i - 1]
      BY <3>1, SubSeqProperties
    <3>3. QED  BY <2>0, <3>2
  <2>3. /\ SubSeq(log, a + 1, L) \in Seq(Line) /\ Len(SubSeq(log, a + 1, L)) = L - a
        /\ \A i \in 1 .. (L - a) : SubSeq(log, a + 1, L)[i] = log[a + i]
    <3>1. a + 1 \in Int /\ L \in Int /\ \A i \in a + 1 .. L : log[i] \in Line  BY <2>0, <2>1
    <3>2. /\ SubSeq(log, a + 1, L) \in Seq(Line)
          /\ Len(SubSeq(log, a + 1, L)) = IF a + 1 <= L THEN L - (a + 1) + 1 ELSE 0
          /\ \A i \in 1 .. L - (a + 1) + 1 : SubSeq(log, a + 1, L)[i] = log[(a + 1) + i - 1]
      BY <3>1, SubSeqProperties
    <3>3. QED  BY <2>0, <3>2
  <2>4. PICK s, t \in Seq(Line) : s = SubSeq(log, 1, a) /\ t = SubSeq(log, a + 1, L)
    BY <2>2, <2>3
  <2>5. <<line>> \in Seq(Line) /\ Len(<<line>>) = 1 /\ <<line>>[1] = line  OBVIOUS
  <2>6. PICK u \in Seq(Line) : u = s \o <<line>>  BY <2>5, ConcatProperties
  <2>7. /\ Len(u) = a + 1 /\ u[a + 1] = line
        /\ \A i \in 1 .. a : u[i] = log[i]
    <3>1. /\ Len(u) = Len(s) + Len(<<line>>)
          /\ \A i \in 1 .. Len(s) + Len(<<line>>) :
               u[i] = IF i <= Len(s) THEN s[i] ELSE <<line>>[i - Len(s)]
      BY <2>5, <2>6, ConcatProperties
    <3>2. Len(s) = a /\ \A i \in 1 .. a : s[i] = log[i]  BY <2>2, <2>4
    <3>3. QED  BY <2>0, <2>5, <3>1, <3>2
  <2>8. log' = u \o t  BY <1>4, <2>4, <2>6 DEF a
  <2>9. /\ log' \in Seq(Line) /\ Len(log') = L + 1
        /\ \A i \in 1 .. L + 1 : log'[i] = IF i <= a + 1 THEN u[i] ELSE t[i - (a + 1)]
    <3>1. /\ log' \in Seq(Line) /\ Len(log') = Len(u) + Len(t)
          /\ \A i \in 1 .. Len(u) + Len(t) : log'[i] = IF i <= Len(u) THEN u[i] ELSE t[i - Len(u)]
      BY <2>8, ConcatProperties
    <3>2. Len(u) + Len(t) = L + 1 /\ Len(u) = a + 1  BY <2>0, <2>3, <2>4, <2>7
    <3>3. QED  BY <3>1, <3>2
  <2>10. log'[a + 1] = line  BY <2>0, <2>7, <2>9
  <2>11. ASSUME NEW j \in 1 .. L PROVE log'[Place(1, a, j)] = log[j]
    <3>1. CASE j > a
      <4>1. Place(1, a, j) = j + 1 /\ j + 1 \in 1 .. L + 1 /\ ~(j + 1 <= a + 1)
            /\ (j + 1) - (a + 1) = j - a /\ j - a \in 1 .. (L - a) /\ a + (j - a) = j
        BY <2>0, <3>1 DEF Place
      <4>2. log'[j + 1] = t[j - a]  BY <2>9, <4>1
      <4>3. t[j - a] = log[a + (j - a)]  BY <2>3, <2>4, <4>1
      <4>4. QED  BY <4>1, <4>2, <4>3
    <3>2. CASE ~(j > a)
      <4>1. Place(1, a, j) = j /\ j \in 1 .. a /\ j \in 1 .. L + 1 /\ j <= a + 1
        BY <2>0, <3>2 DEF Place
      <4>2. QED  BY <2>7, <2>9, <4>1
    <3>3. QED  BY <3>1, <3>2
  <2>12. QED  BY <2>9, <2>10, <2>11 DEF a
<1>6. /\ files' \in Seq(File) /\ Len(files') = M /\ DOMAIN files' = 1 .. M
      /\ \A i \in 1 .. M : /\ files'[i].end = IF i >= n THEN o[i].end + 1 ELSE o[i].end
                           /\ files'[i].bytes = IF i = n THEN o[i].bytes + bytes ELSE o[i].bytes
  <2>1. \A i \in 1 .. M :
          [end |-> IF i >= n THEN o[i].end + 1 ELSE o[i].end,
           bytes |-> IF i = n THEN o[i].bytes + bytes ELSE o[i].bytes] \in File
    BY SMTT(30), <1>2 DEF File
  <2>11. files' \in [1 .. M -> File]  BY <1>4, <2>1
  <2>2. files' \in Seq(File) /\ Len(files') = M /\ DOMAIN files' = 1 .. M  BY <1>1, <2>11
  <2>3. QED  BY <1>4, <2>2
<1>7. \A m \in 0 .. Len(files) : EndOf(m) = IF m = 0 THEN 0 ELSE o[m].end
  BY <1>1, <1>2 DEF EndOf
<1>8. \A m \in 0 .. M : EndOf(m)' = IF m = 0 THEN 0
                                    ELSE IF m >= n THEN o[m].end + 1 ELSE o[m].end
  BY <1>1, <1>6 DEF EndOf
<1>9. Divided'
  <2>1. files' # <<>> /\ files'[M].end = Len(log')  BY <1>1, <1>2, <1>5, <1>6
  <2>2. ASSUME NEW i \in 1 .. M, NEW j \in 1 .. M, i <= j
        PROVE  files'[i].end <= files'[j].end
    <3>1. o[i].end \in Nat /\ o[j].end \in Nat /\ o[i].end <= o[j].end  BY <1>2, <2>2
    <3>2. j < n => i < n  BY <1>1, <2>2
    <3>3. QED  BY SMTT(30), <1>1, <1>6, <3>1, <3>2
  <2>3. ASSUME NEW i \in 1 .. M
        PROVE  /\ files'[i].bytes = 0 => files'[i].end = EndOf(i - 1)'
               /\ files'[i].bytes > 0 => files'[i].end > EndOf(i - 1)'
    <3>1. i = 1 \/ i - 1 \in 1 .. M  BY <1>1
    <3>2. EndOf(i - 1)' = IF i = 1 THEN 0
                          ELSE IF i - 1 >= n THEN o[i - 1].end + 1 ELSE o[i - 1].end
      BY <1>8, <3>1
    <3>7. /\ o[i].end \in Nat /\ o[i].bytes \in Nat /\ (i # 1 => o[i - 1].end \in Nat)
          /\ o[i].bytes = 0 => o[i].end = IF i = 1 THEN 0 ELSE o[i - 1].end
          /\ o[i].bytes > 0 => o[i].end > IF i = 1 THEN 0 ELSE o[i - 1].end
      BY <1>2, <3>1
    <3>8. /\ files'[i].end = IF i >= n THEN o[i].end + 1 ELSE o[i].end
          /\ files'[i].bytes = IF i = n THEN o[i].bytes + bytes ELSE o[i].bytes
      BY <1>6
    <3>9. EndOf(i - 1)' \in Nat  BY <3>2, <3>7
    <3>3. CASE i = n
      BY SMTT(30), <1>1, <3>2, <3>3, <3>7, <3>8
    <3>4. CASE i < n
      BY <1>1, <3>2, <3>4, <3>7, <3>8
    <3>5. CASE i > n
      <4>1. i - 1 >= n /\ i # 1 /\ i >= n /\ i # n  BY <1>1, <3>5
      <4>2. QED  BY SMTT(30), <3>2, <3>7, <3>8, <4>1
    <3>6. QED  BY <1>1, <3>3, <3>4, <3>5
  <2>4. QED  BY <1>6, <2>1, <2>2, <2>3 DEF Divided
<1>10. Inserted(at, n, line)
  <2>1. ASSUME NEW m \in 0 .. Len(files)
        PROVE  /\ m < n => EndOf(m)' = EndOf(m)
               /\ m <= n => EndOf(m) <= at
               /\ m >= n => EndOf(m)' = EndOf(m) + 1 /\ at <= EndOf(m)
    <3>1. m \in 0 .. M  BY <1>1
    <3>2. CASE m = 0
      BY <1>1, <1>3, <1>7, <1>8, <3>1, <3>2
    <3>3. CASE m # 0
      <4>1. m \in 1 .. M /\ EndOf(m) = o[m].end  BY <1>7, <3>1, <3>3
      <4>2. QED  BY <1>1, <1>2, <1>8, <3>1, <3>3, <4>1
    <3>4. QED  BY <3>2, <3>3
  <2>2. Len(files') >= Len(files)  BY <1>1, <1>6
  <2>3. Carry(1, at, n)  BY <1>1, <1>3, <1>5, <2>1, <2>2 DEF Carry
  <2>4. QED  BY <1>1, <1>5, <2>3 DEF Inserted
<1>11. FilesTyped'  BY <1>5, <1>6 DEF FilesTyped
<1>12. QED  BY <1>9, <1>10, <1>11

LEMMA JoinMoves ==
    ASSUME FilesTyped, Divided, NEW n \in Nat, n >= 1, NEW bytes \in Nat, bytes > 0,
           EndsBare(n), Join(n, bytes)
    PROVE  FilesTyped' /\ Divided' /\ \E at : Joined(at, n)
<1> DEFINE at == files[n].end
<1>1. /\ n \in 1 .. Len(files) /\ DOMAIN files = 1 .. Len(files) /\ Len(files) \in Nat
      /\ files[n].bytes > 0 /\ Opened(n) = files
      /\ log \in Seq(Line) /\ Len(log) \in Nat
      /\ \A i \in 1 .. Len(files) : files[i] \in File
  BY DEF EndsBare, FilesTyped, Opened
<1>2. at \in 1 .. Len(log) /\ EndOf(n) = at
  <2>1. n \in 0 .. Len(files) /\ n - 1 \in 0 .. Len(files) /\ n # 0  BY <1>1
  <2>2. EndOf(n) = at /\ EndOf(n) \in 0 .. Len(log) /\ EndOf(n - 1) \in 0 .. Len(log)
    BY <2>1, EndsInOrder DEF EndOf
  <2>3. at > EndOf(n - 1)  BY <1>1 DEF Divided
  <2>4. QED  BY <1>1, <2>2, <2>3
<1>3. log' = [log EXCEPT ![at].tail = "cut"] /\ files' = [files EXCEPT ![n].bytes = @ + bytes]
  BY <1>1 DEF Join
<1> HIDE DEF at
<1>4. /\ log' \in Seq(Line) /\ Len(log') = Len(log)
      /\ \A j \in 1 .. Len(log) : /\ log'[j].seq = log[j].seq /\ log'[j].by = log[j].by
                                  /\ log[j].tail = "cut" => log'[j].tail = "cut"
      /\ log'[at].tail = "cut"
  <2>1. \A j \in 1 .. Len(log) : log[j] \in Line  BY <1>1
  <2>2. [log[at] EXCEPT !.tail = "cut"] \in Line  BY <1>2, <2>1 DEF Line
  <2>3. log' = [log EXCEPT ![at] = [log[at] EXCEPT !.tail = "cut"]]  BY <1>3
  <2>4. /\ log' \in Seq(Line) /\ Len(log') = Len(log)
        /\ \A j \in 1 .. Len(log) :
             log'[j] = IF j = at THEN [log[at] EXCEPT !.tail = "cut"] ELSE log[j]
    BY <1>1, <1>2, <2>2, <2>3, ExceptSeq
  <2>5. LET l == [log[at] EXCEPT !.tail = "cut"]
        IN  l.seq = log[at].seq /\ l.by = log[at].by /\ l.tail = "cut"
    BY <1>2, <2>1 DEF Line
  <2>6. QED  BY <1>2, <2>4, <2>5
<1>5. /\ files' \in Seq(File) /\ Len(files') = Len(files) /\ DOMAIN files' = 1 .. Len(files)
      /\ \A i \in 1 .. Len(files) :
           /\ files'[i].end = files[i].end
           /\ files'[i].bytes = IF i = n THEN files[i].bytes + bytes ELSE files[i].bytes
  <2>1. \A i \in 1 .. Len(files) : files[i].end \in Nat /\ files[i].bytes \in Nat
    BY <1>1 DEF File
  <2>2. [files[n] EXCEPT !.bytes = @ + bytes] \in File  BY <1>1, <2>1 DEF File
  <2>3. files' = [files EXCEPT ![n] = [files[n] EXCEPT !.bytes = @ + bytes]]  BY <1>3
  <2>4. files \in Seq(File)  BY DEF FilesTyped
  <2>5. /\ files' \in Seq(File) /\ Len(files') = Len(files)
        /\ \A i \in 1 .. Len(files) :
             files'[i] = IF i = n THEN [files[n] EXCEPT !.bytes = @ + bytes] ELSE files[i]
    BY <1>1, <2>2, <2>3, <2>4, ExceptSeq
  <2>6. DOMAIN files' = 1 .. Len(files)  BY <2>5
  <2>7. /\ [files[n] EXCEPT !.bytes = @ + bytes].end = files[n].end
        /\ [files[n] EXCEPT !.bytes = @ + bytes].bytes = files[n].bytes + bytes
    BY <1>1 DEF File
  <2>8. QED  BY <1>1, <2>5, <2>6, <2>7
<1>6. \A m \in 0 .. Len(files) : EndOf(m)' = EndOf(m)  BY <1>1, <1>5 DEF EndOf
<1>7. Divided'
  <2>1. files' # <<>> /\ files'[Len(files')].end = Len(log')
    <3>1. files # <<>> /\ Len(files) \in 1 .. Len(files)  BY <1>1
    <3>2. QED  BY <1>1, <1>4, <1>5, <3>1 DEF Divided
  <2>2. \A i, j \in DOMAIN files' : i <= j => files'[i].end <= files'[j].end
    BY <1>1, <1>5 DEF Divided
  <2>3. ASSUME NEW i \in 1 .. Len(files)
        PROVE  /\ files'[i].bytes = 0 => files'[i].end = EndOf(i - 1)'
               /\ files'[i].bytes > 0 => files'[i].end > EndOf(i - 1)'
    <3>1. i - 1 \in 0 .. Len(files)  BY <1>1
    <3>2. EndOf(i - 1)' = EndOf(i - 1)  BY <1>6, <3>1
    <3>3. files[i].bytes \in Nat  BY <1>1 DEF File
    <3>4. /\ files[i].bytes = 0 => files[i].end = EndOf(i - 1)
          /\ files[i].bytes > 0 => files[i].end > EndOf(i - 1)
      BY <1>1 DEF Divided
    <3>5. QED  BY <1>1, <1>5, <3>2, <3>3, <3>4
  <2>4. QED  BY <1>5, <2>1, <2>2, <2>3 DEF Divided
<1>8. Carry(0, at, n)
  <2>1. \A j \in 1 .. Len(log) : Place(0, at, j) = j  BY DEF Place
  <2>2. n \in 0 .. Len(files) /\ at \in 0 .. Len(log)  BY <1>1, <1>2
  <2>3. ASSUME NEW m \in 0 .. Len(files)
        PROVE  EndOf(m)' = EndOf(m) + 0 /\ EndOf(m)' = EndOf(m)
               /\ (m <= n => EndOf(m) <= at) /\ (m >= n => at <= EndOf(m))
    BY <1>1, <1>2, <1>6, <2>2, EndsInOrder
  <2>4. QED  BY <1>1, <1>4, <1>5, <2>1, <2>2, <2>3 DEF Carry
<1>9. Torn'
  <2>1. at \in DOMAIN log'  BY <1>1, <1>2, <1>4
  <2>2. QED  BY <1>4, <2>1 DEF Torn
<1>10. QED  BY <1>4, <1>5, <1>7, <1>8, <1>9 DEF FilesTyped, Joined

LEMMA PutMoves ==
    ASSUME FilesTyped, Divided, NEW n \in Nat, n >= 1, n <= Len(files) + 1,
           NEW line \in Line, NEW bytes \in Nat, bytes > 0, Put(n, line, bytes)
    PROVE  FilesTyped' /\ Divided' /\ \E at : Inserted(at, n, line) \/ Joined(at, n)
<1>1. CASE EndsBare(n)
  <2>1. Join(n, bytes)  BY <1>1 DEF Put
  <2>2. FilesTyped' /\ Divided' /\ \E at : Joined(at, n)  BY <1>1, <2>1, JoinMoves
  <2>3. QED  BY <2>2
<1>2. CASE ~EndsBare(n)
  <2>1. Insert(n, line, bytes)  BY <1>2 DEF Put
  <2>2. FilesTyped' /\ Divided' /\ \E at : Inserted(at, n, line)  BY <2>1, InsertMoves
  <2>3. QED  BY <2>2
<1>3. QED  BY <1>1, <1>2

\* What a call writes, wholly or in part.
LEMMA NewLineIsLine ==
    ASSUME Typed, NEW a \in Appends
    PROVE  /\ NewLine(a) \in Line /\ NewLine(a).by = a /\ NewLine(a).seq = Len(got[a]) + 1
           /\ NewLine(a).tail = "newline" /\ Len(got[a]) \in Nat
<1>1. got[a] \in Seq(Line) /\ Len(got[a]) \in Nat  BY DEF Typed, CallsTyped
<1>2. got[a] # <<>> => got[a][Len(got[a])].by \in Appends
  <2> SUFFICES ASSUME got[a] # <<>> PROVE got[a][Len(got[a])].by \in Appends
    OBVIOUS
  <2>1. Len(got[a]) \in 1 .. Len(got[a])  BY <1>1
  <2>2. got[a][Len(got[a])] \in Line  BY <1>1, <2>1, ElementOfSeq
  <2>3. QED  BY <2>2 DEF Line
<1>3. NewLine(a).prev \in Digests  BY <1>2 DEF NewLine, Digests
<1>4. QED  BY <1>1, <1>3 DEF NewLine, Line

\* The lines of a file that was listed.
LEMMA FileLines ==
    ASSUME FilesTyped, Divided, NEW m \in Nat, m < Len(files)
    PROVE  /\ LinesOf(m + 1) \in Seq(Line)
           /\ Len(LinesOf(m + 1)) = EndOf(m + 1) - EndOf(m)
           /\ EndOf(m) \in 0 .. Len(log) /\ EndOf(m + 1) \in EndOf(m) .. Len(log)
           /\ \A i \in 1 .. (EndOf(m + 1) - EndOf(m)) : LinesOf(m + 1)[i] = log[EndOf(m) + i]
<1>1. m \in 0 .. Len(files) /\ m + 1 \in 0 .. Len(files) /\ m <= m + 1 /\ (m + 1) - 1 = m
  BY DEF FilesTyped
<1>2. PICK k, n \in 0 .. Len(log) : k = EndOf(m) /\ n = EndOf(m + 1) /\ k <= n
  BY <1>1, EndsInOrder
<1>3. LinesOf(m + 1) = SubSeq(log, k + 1, n)  BY <1>1, <1>2 DEF LinesOf
<1>4. k + 1 \in Int /\ n \in Int /\ \A i \in k + 1 .. n : log[i] \in Line
  BY <1>2 DEF FilesTyped
<1>5. /\ SubSeq(log, k + 1, n) \in Seq(Line)
      /\ Len(SubSeq(log, k + 1, n)) = IF k + 1 <= n THEN n - (k + 1) + 1 ELSE 0
      /\ \A i \in 1 .. n - (k + 1) + 1 : SubSeq(log, k + 1, n)[i] = log[(k + 1) + i - 1]
  BY <1>4, SubSeqProperties
<1>6. /\ Len(SubSeq(log, k + 1, n)) = n - k
      /\ \A i \in 1 .. (n - k) : SubSeq(log, k + 1, n)[i] = log[k + i]
  BY SMTT(30), <1>2, <1>5
<1>7. n \in k .. Len(log)  BY <1>2
<1> DEFINE lines == LinesOf(m + 1)
<1>8. /\ lines \in Seq(Line) /\ Len(lines) = n - k
      /\ \A i \in 1 .. (n - k) : lines[i] = log[k + i]
  BY <1>3, <1>5, <1>6
<1> HIDE DEF lines
<1>9. /\ Len(lines) = EndOf(m + 1) - EndOf(m)
      /\ \A i \in 1 .. (EndOf(m + 1) - EndOf(m)) : lines[i] = log[EndOf(m) + i]
  BY <1>2, <1>8
<1>10. QED  BY <1>2, <1>7, <1>8, <1>9 DEF lines

\* A step touches nothing of another call.
LEMMA CallsMove ==
    ASSUME Layout, NEW a \in Appends, Step(a)
    PROVE  /\ CallsTyped'
           /\ \A b \in Appends \ {a} : /\ pc'[b] = pc[b] /\ listed'[b] = listed[b]
                                       /\ read'[b] = read[b] /\ got'[b] = got[b]
                                       /\ target'[b] = target[b]
<1>1. CallsTyped /\ FilesTyped /\ Divided /\ Reading(a) /\ Len(files) \in Nat
  BY DEF Layout, Typed, FilesTyped
<1>2. CASE List(a)
  BY <1>1, <1>2 DEF List, Goto, CallsTyped
<1>3. CASE Read(a)
  <2> DEFINE lines == got[a] \o LinesOf(read[a] + 1)
  <2>1. read[a] \in Nat /\ read[a] < Len(files)
    BY <1>1, <1>3 DEF Read, Reading, CallsTyped
  <2>2. lines \in Seq(Line)
    <3>1. LinesOf(read[a] + 1) \in Seq(Line)  BY <1>1, <2>1, FileLines
    <3>2. got[a] \in Seq(Line)  BY <1>1 DEF CallsTyped
    <3>3. QED  BY <3>1, <3>2, ConcatProperties
  <2>3. /\ UNCHANGED <<listed, target>>
        /\ \/ /\ got' = [got EXCEPT ![a] = lines] /\ read' = [read EXCEPT ![a] = @ + 1]
              /\ UNCHANGED pc
           \/ Goto(a, "raised") /\ UNCHANGED <<got, read>>
    BY <1>3 DEF Read
  <2> HIDE DEF lines
  <2>4. CASE Goto(a, "raised") /\ UNCHANGED <<got, read>>
    BY <1>1, <2>3, <2>4 DEF Goto, CallsTyped
  <2>5. CASE /\ got' = [got EXCEPT ![a] = lines] /\ read' = [read EXCEPT ![a] = @ + 1]
             /\ UNCHANGED pc
    <3>1. got' \in [Appends -> Seq(Line)] /\ \A b \in Appends \ {a} : got'[b] = got[b]
      BY <1>1, <2>2, <2>5 DEF CallsTyped
    <3>2. read' \in [Appends -> Nat] /\ \A b \in Appends \ {a} : read'[b] = read[b]
      BY <1>1, <2>5 DEF CallsTyped
    <3>3. QED  BY <1>1, <2>3, <2>5, <3>1, <3>2 DEF CallsTyped
  <2>6. QED  BY <2>3, <2>4, <2>5
<1>4. CASE WritePath(a)
  BY <1>1, <1>4 DEF WritePath, Goto, CallsTyped
<1>5. CASE Write(a) \/ Tear(a) \/ Stop(a)
  BY <1>1, <1>5 DEF Write, Tear, Stop, Goto, CallsTyped
<1>6. QED  BY <1>2, <1>3, <1>4, <1>5 DEF Step

\* Call a has put its line, which is `line`, into the file it chose.
Wrote(a, line) ==
    /\ pc[a] = "write" /\ pc'[a] \in {"returned", "raised"}
    /\ line.by = a /\ line.seq = Len(got[a]) + 1
    /\ pc'[a] = "returned" => line.tail # "cut"
    /\ \E at : Inserted(at, target[a], line) \/ Joined(at, target[a])

Quiet(a) == log' = log /\ Carry(0, Len(log), Len(files) + 1) /\ pc'[a] # "returned"

LEMMA StepMoves ==
    ASSUME Layout, NEW a \in Appends, Step(a)
    PROVE  FilesTyped' /\ Divided' /\ (Quiet(a) \/ \E line : Wrote(a, line))
<1>1. CallsTyped /\ FilesTyped /\ Divided /\ Reading(a) /\ Len(files) \in Nat /\ Typed
  BY DEF Layout, Typed, FilesTyped
<1>2. CASE List(a) \/ Read(a) \/ WritePath(a)
  <2>1. log' = log /\ files' = files  BY <1>2 DEF List, Read, WritePath
  <2>2. pc'[a] # "returned"
    BY <1>1, <1>2 DEF List, Read, WritePath, Goto, CallsTyped
  <2>3. QED  BY <1>1, <2>1, <2>2, StaysCarried DEF Quiet
<1>3. CASE Stop(a)
  <2>1. log' = log /\ pc'[a] # "returned"  BY <1>1, <1>3 DEF Stop, Goto, CallsTyped
  <2>2. files' = files \/ \E n \in Nat : n >= 1 /\ n <= Len(files) + 1 /\ files' = Opened(n)
    BY <1>1, <1>3 DEF Stop, Reading, CallsTyped
  <2>3. QED  BY <1>1, <2>1, <2>2, StaysCarried DEF Quiet
<1>4. ASSUME pc[a] = "write", NEW line \in Line, NEW bytes \in Nat, bytes > 0,
             Put(target[a], line, bytes)
      PROVE  FilesTyped' /\ Divided'
             /\ \E at : Inserted(at, target[a], line) \/ Joined(at, target[a])
  <2>1. target[a] \in Nat /\ target[a] >= 1 /\ target[a] <= Len(files) + 1
    BY <1>1, <1>4 DEF Reading, CallsTyped
  <2>2. QED  BY <1>1, <1>4, <2>1, PutMoves
<1>5. CASE Write(a)
  <2>1. /\ pc[a] = "write" /\ Put(target[a], NewLine(a), Size[a])
        /\ pc'[a] \in {"returned", "raised"}
    BY <1>1, <1>5 DEF Write, Goto, CallsTyped
  <2>2. Size[a] \in Nat /\ Size[a] > 0  BY Sizes
  <2>3. NewLine(a) \in Line /\ NewLine(a).by = a /\ NewLine(a).seq = Len(got[a]) + 1
        /\ NewLine(a).tail = "newline"
    BY <1>1, NewLineIsLine
  <2>4. FilesTyped' /\ Divided'
        /\ \E at : Inserted(at, target[a], NewLine(a)) \/ Joined(at, target[a])
    BY <1>4, <2>1, <2>2, <2>3
  <2>5. Wrote(a, NewLine(a))  BY <2>1, <2>3, <2>4 DEF Wrote
  <2>6. QED  BY <2>4, <2>5
<1>6. CASE Tear(a)
  <2>1. PICK tail \in {"bare", "cut"} :
          Put(target[a], [NewLine(a) EXCEPT !.tail = tail],
              IF tail = "bare" THEN Size[a] - 1 ELSE 1)
    BY <1>6 DEF Tear
  <2> DEFINE line == [NewLine(a) EXCEPT !.tail = tail]
             bytes == IF tail = "bare" THEN Size[a] - 1 ELSE 1
  <2>2. pc[a] = "write" /\ pc'[a] = "raised"  BY <1>1, <1>6 DEF Tear, Goto, CallsTyped
  <2>3. NewLine(a) \in Line /\ NewLine(a).by = a /\ NewLine(a).seq = Len(got[a]) + 1
    BY <1>1, NewLineIsLine
  <2>4. line \in Line /\ line.by = a /\ line.seq = Len(got[a]) + 1  BY <2>3 DEF Line
  <2>5. bytes \in Nat /\ bytes > 0  BY SizeAssumption
  <2>6. Put(target[a], line, bytes)  BY <2>1
  <2> HIDE DEF line, bytes
  <2>7. FilesTyped' /\ Divided'
        /\ \E at : Inserted(at, target[a], line) \/ Joined(at, target[a])
    BY <1>4, <2>2, <2>4, <2>5, <2>6
  <2>8. Wrote(a, line)  BY <2>2, <2>4, <2>7 DEF Wrote
  <2>9. QED  BY <2>7, <2>8
<1>7. QED  BY <1>2, <1>3, <1>5, <1>6 DEF Step

\* Lines keep their order, and their side of the end of every file.
LEMMA Places ==
    ASSUME FilesTyped, Divided, FilesTyped', NEW d, NEW at, NEW n, Carry(d, at, n)
    PROVE  /\ \A j \in 1 .. Len(log) :
                /\ Place(d, at, j) \in 1 .. Len(log') /\ j <= Place(d, at, j)
                /\ \A i \in 1 .. Len(log) : i < j => Place(d, at, i) < Place(d, at, j)
                /\ n \in Nat => \A m \in 0 .. Len(files) :
                                  j <= EndOf(m) <=> Place(d, at, j) <= EndOf(m)'
           /\ \A i \in 1 .. Len(log') :
                (\E j \in 1 .. Len(log) : i = Place(d, at, j)) \/ (d = 1 /\ i = at + 1)
<1>1. d \in {0, 1} /\ at \in 0 .. Len(log) /\ Len(log) \in Nat /\ Len(log') = Len(log) + d
  BY DEF Carry, FilesTyped
<1>2. ASSUME NEW j \in 1 .. Len(log)
      PROVE  /\ Place(d, at, j) \in 1 .. Len(log') /\ j <= Place(d, at, j)
             /\ \A i \in 1 .. Len(log) : i < j => Place(d, at, i) < Place(d, at, j)
  BY <1>1 DEF Place
<1>3. ASSUME NEW j \in 1 .. Len(log), n \in Nat, NEW m \in 0 .. Len(files)
      PROVE  j <= EndOf(m) <=> Place(d, at, j) <= EndOf(m)'
  <2>1. EndOf(m) \in Nat /\ m \in Nat  BY EndsInOrder DEF FilesTyped
  <2>2. /\ m < n => EndOf(m)' = EndOf(m) /\ EndOf(m) <= at
        /\ m >= n => EndOf(m)' = EndOf(m) + d /\ at <= EndOf(m)
    BY <1>3, <2>1 DEF Carry
  <2>3. CASE m < n
    BY <1>1, <2>1, <2>2, <2>3 DEF Place
  <2>4. CASE m >= n
    BY <1>1, <2>1, <2>2, <2>4 DEF Place
  <2>5. QED  BY <1>3, <2>1, <2>3, <2>4
<1>4. ASSUME NEW i \in 1 .. Len(log')
      PROVE  (\E j \in 1 .. Len(log) : i = Place(d, at, j)) \/ (d = 1 /\ i = at + 1)
  <2>1. CASE i <= at
    <3>1. i \in 1 .. Len(log) /\ Place(d, at, i) = i  BY <1>1, <2>1 DEF Place
    <3>2. QED  BY <3>1
  <2>2. CASE i > at /\ ~(d = 1 /\ i = at + 1)
    <3>1. i - d \in 1 .. Len(log) /\ Place(d, at, i - d) = i  BY <1>1, <2>2 DEF Place
    <3>2. QED  BY <3>1
  <2>3. QED  BY <1>1, <2>1, <2>2
<1>5. QED  BY <1>2, <1>3, <1>4

\* The carry of a step.
LEMMA StepCarries ==
    ASSUME Layout, NEW a \in Appends, Quiet(a) \/ \E line : Wrote(a, line)
    PROVE  \E d, at, n : Carry(d, at, n) /\ n \in Nat
<1>1. target[a] \in Nat /\ Len(files) + 1 \in Nat
  BY DEF Layout, Typed, FilesTyped, CallsTyped
<1>2. CASE Quiet(a)
  BY <1>1, <1>2 DEF Quiet
<1>3. CASE \E line : Wrote(a, line)
  BY <1>1, <1>3 DEF Wrote, Inserted, Joined
<1>4. QED  BY <1>2, <1>3

LEMMA LayoutKeeps ==
    ASSUME Layout, NEW a \in Appends, Step(a)
    PROVE  Layout'
<1>1. /\ FilesTyped' /\ Divided' /\ CallsTyped'
      /\ \A b \in Appends \ {a} : /\ pc'[b] = pc[b] /\ listed'[b] = listed[b]
                                  /\ read'[b] = read[b] /\ got'[b] = got[b]
                                  /\ target'[b] = target[b]
  BY StepMoves, CallsMove
<1>2. /\ Len(files') >= Len(files) /\ Len(files) \in Nat /\ Len(files') \in Nat
  <2>1. PICK d, at, n : Carry(d, at, n)  BY StepMoves, StepCarries
  <2>2. Len(files') >= Len(files)  BY <2>1 DEF Carry
  <2>3. QED  BY <1>1, <2>2 DEF Layout, Typed, FilesTyped
<1>3. CallsTyped /\ FilesTyped /\ \A b \in Appends : Reading(b)  BY DEF Layout, Typed
<1>4. ASSUME NEW b \in Appends \ {a} PROVE Reading(b)'
  <2>1. listed[b] \in Nat /\ target[b] \in Nat  BY <1>3 DEF CallsTyped
  <2>2. QED  BY <1>1, <1>2, <1>3, <2>1 DEF Reading
<1>5. Reading(a)'
  <2>1. /\ listed[a] \in Nat /\ read[a] \in Nat /\ target[a] \in Nat /\ Reading(a)
    BY <1>3 DEF CallsTyped
  <2>2. CASE List(a)
    BY <1>2, <1>3, <2>1, <2>2 DEF List, Goto, CallsTyped, Reading
  <2>3. CASE Read(a)
    <3>1. CASE pc'[a] = "raised"
      BY <3>1 DEF Reading
    <3>2. CASE pc'[a] # "raised"
      <4>1. /\ pc' = pc /\ pc[a] = "read" /\ read[a] < listed[a] /\ listed' = listed
            /\ read' = [read EXCEPT ![a] = @ + 1]
        BY <1>3, <2>3, <3>2 DEF Read, Goto, CallsTyped
      <4>2. read'[a] = read[a] + 1  BY <1>3, <4>1 DEF CallsTyped
      <4>3. QED  BY <1>2, <2>1, <4>1, <4>2 DEF Reading
    <3>3. QED  BY <3>1, <3>2
  <2>4. CASE WritePath(a)
    <3>1. /\ pc'[a] = "write" /\ pc[a] = "read" /\ read[a] = listed[a]
          /\ read' = read /\ listed' = listed /\ files' = files
          /\ target'[a] = CASE files = <<>> -> 1
                            [] files # <<>> /\ Full(a) -> Len(files) + 1
                            [] OTHER -> Len(files)
      BY <1>3, <2>4 DEF WritePath, Goto, CallsTyped
    <3>2. files = <<>> <=> Len(files) = 0  BY <1>3 DEF FilesTyped
    <3>3. target'[a] \in {Len(files), Len(files) + 1} /\ target'[a] >= 1
      BY <1>2, <3>1, <3>2
    <3>4. QED  BY <1>2, <2>1, <3>1, <3>3 DEF Reading
  <2>5. CASE Write(a) \/ Tear(a) \/ Stop(a)
    <3>1. pc'[a] \in {"returned", "raised"}
      BY <1>3, <2>5 DEF Write, Tear, Stop, Goto, CallsTyped
    <3>2. QED  BY <3>1 DEF Reading
  <2>6. QED  BY <2>2, <2>3, <2>4, <2>5 DEF Step
<1>6. QED  BY <1>1, <1>4, <1>5 DEF Layout, Typed

-----------------------------------------------------------------------------
(* The sequence numbers.  A call that found k events found one of each number up  *)
(* to k, in files that end before the place where it writes.                      *)

\* The number k is in the first m files.
Sight(m, k) == \E j \in 1 .. EndOf(m) : log[j].seq = k

Seen(a) ==
    pc[a] \in {"read", "write"} =>
        Len(got[a]) <= EndOf(read[a]) /\ \A k \in 1 .. Len(got[a]) : Sight(read[a], k)

Numbered == NoneSkipped /\ \A a \in Appends : Seen(a)

\* What was seen in the first m files stays there.
LEMMA SightStays ==
    ASSUME Layout, Layout', NEW d, NEW at, NEW n \in Nat, Carry(d, at, n),
           NEW m \in 0 .. Len(files), NEW k, Sight(m, k)
    PROVE  \E j \in 1 .. EndOf(m)' : log'[j].seq = k
<1>1. FilesTyped /\ Divided /\ FilesTyped'  BY DEF Layout, Typed
<1>2. EndOf(m) \in 0 .. Len(log) /\ Len(log) \in Nat  BY <1>1, EndsInOrder DEF FilesTyped
<1>3. PICK j \in 1 .. EndOf(m) : log[j].seq = k  BY DEF Sight
<1>4. j \in 1 .. Len(log) /\ j <= EndOf(m)  BY <1>2
<1>5. Place(d, at, j) \in 1 .. Len(log') /\ Place(d, at, j) <= EndOf(m)'
  BY <1>1, <1>4, Places
<1>6. log'[Place(d, at, j)].seq = k  BY <1>3, <1>4 DEF Carry
<1>7. EndOf(m)' \in Nat
  <2>1. m <= n \/ m >= n  OBVIOUS
  <2>2. d \in {0, 1} /\ (m < n => EndOf(m)' = EndOf(m)) /\ (m >= n => EndOf(m)' = EndOf(m) + d)
    BY DEF Carry
  <2>3. QED  BY <1>2, <2>1, <2>2
<1>8. Place(d, at, j) \in 1 .. EndOf(m)'  BY <1>5, <1>7
<1>9. QED  BY <1>6, <1>8

\* A call that reads on, or waits for others, still has before it what it found.
LEMMA SeenStays ==
    ASSUME Layout, Layout', NEW d, NEW at, NEW n \in Nat, Carry(d, at, n),
           NEW a \in Appends, Seen(a), pc[a] \in {"read", "write"},
           read'[a] = read[a], got'[a] = got[a]
    PROVE  Seen(a)'
<1>1. read[a] \in 0 .. Len(files) /\ FilesTyped /\ Divided /\ Len(got[a]) \in Nat
  BY DEF Layout, Typed, FilesTyped, CallsTyped, Reading
<1>2. Len(got[a]) <= EndOf(read[a])'
  <2>1. EndOf(read[a]) \in Nat  BY <1>1, EndsInOrder DEF FilesTyped
  <2>2. /\ d \in {0, 1}
        /\ read[a] < n => (EndOf(read[a]) = EndOf(read[a]))
    BY DEF Carry
  <2>3. ASSUME NEW m \in 0 .. Len(files) PROVE EndOf(m)' = EndOf(m) \/ EndOf(m)' = EndOf(m) + d
    <3>1. m < n \/ m >= n  BY <1>1
    <3>2. QED  BY <3>1 DEF Carry
  <2>4. PICK m \in 0 .. Len(files) : m = read[a]  BY <1>1
  <2>5. EndOf(read[a])' = EndOf(m)'  BY <2>4 DEF EndOf
  <2>6. EndOf(m) \in Nat /\ Len(got[a]) <= EndOf(m)  BY <2>1, <2>4 DEF Seen
  <2>7. QED  BY <1>1, <2>2, <2>3, <2>5, <2>6
<1>3. ASSUME NEW k \in 1 .. Len(got[a]) PROVE Sight(read[a], k)'
  <2>1. PICK m \in 0 .. Len(files) : m = read[a]  BY <1>1
  <2>2. Sight(m, k)  BY <2>1 DEF Seen
  <2>3. \E j \in 1 .. EndOf(m)' : log'[j].seq = k  BY <2>2, SightStays
  <2>4. QED  BY <2>1, <2>3 DEF Sight, EndOf
<1>4. QED  BY <1>2, <1>3 DEF Seen

\* A file that was read and accepted has the numbers that follow.
LEMMA ReadSees ==
    ASSUME Layout, NEW a \in Appends, Seen(a), Read(a)
    PROVE  Seen(a)'
<1> DEFINE lines == got[a] \o LinesOf(read[a] + 1)
<1>1. CallsTyped /\ FilesTyped /\ Divided /\ Reading(a) /\ UNCHANGED <<log, files>> /\ pc[a] = "read"
  BY DEF Layout, Typed, Read
<1>2. CASE ~ValidChain(lines)
  BY <1>1, <1>2 DEF Read, Goto, CallsTyped, Seen
<1>3. CASE ValidChain(lines)
  <2>1. PICK m \in Nat : m = read[a] /\ m < Len(files)
    BY <1>1 DEF Read, Reading, CallsTyped, FilesTyped
  <2>2. got'[a] = lines /\ read'[a] = m + 1
    BY <1>1, <1>3, <2>1 DEF Read, CallsTyped
  <2>3. PICK e, f \in Nat : /\ e = EndOf(m) /\ f = EndOf(m + 1) /\ e <= f
                            /\ LinesOf(m + 1) \in Seq(Line) /\ Len(LinesOf(m + 1)) = f - e
                            /\ \A i \in 1 .. (f - e) : LinesOf(m + 1)[i] = log[e + i]
    <3>1. /\ LinesOf(m + 1) \in Seq(Line)
          /\ Len(LinesOf(m + 1)) = EndOf(m + 1) - EndOf(m)
          /\ EndOf(m) \in 0 .. Len(log) /\ EndOf(m + 1) \in EndOf(m) .. Len(log)
          /\ \A i \in 1 .. (EndOf(m + 1) - EndOf(m)) : LinesOf(m + 1)[i] = log[EndOf(m) + i]
      BY <1>1, <2>1, FileLines
    <3>2. Len(log) \in Nat  BY <1>1 DEF FilesTyped
    <3>3. EndOf(m) \in Nat /\ EndOf(m + 1) \in Nat /\ EndOf(m) <= EndOf(m + 1)  BY <3>1, <3>2
    <3>4. QED  BY <3>1, <3>3
  <2>4. PICK l \in Nat : l = Len(got[a]) /\ l <= e /\ got[a] \in Seq(Line)
    BY <1>1, <2>1, <2>3 DEF CallsTyped, Seen
  <2>5. /\ lines \in Seq(Line) /\ Len(lines) = l + (f - e) /\ DOMAIN lines = 1 .. Len(lines)
        /\ \A i \in 1 .. l + (f - e) : lines[i] = IF i <= l THEN got[a][i] ELSE LinesOf(m + 1)[i - l]
    <3>1. /\ got[a] \o LinesOf(m + 1) \in Seq(Line)
          /\ Len(got[a] \o LinesOf(m + 1)) = Len(got[a]) + Len(LinesOf(m + 1))
          /\ \A i \in 1 .. Len(got[a]) + Len(LinesOf(m + 1)) :
               (got[a] \o LinesOf(m + 1))[i] =
                 IF i <= Len(got[a]) THEN got[a][i] ELSE LinesOf(m + 1)[i - Len(got[a])]
      <4>1. got[a] \in Seq(Line) /\ LinesOf(m + 1) \in Seq(Line)  BY <2>3, <2>4
      <4>2. QED  BY <4>1, ConcatProperties, Zenon
    <3>2. lines = got[a] \o LinesOf(m + 1)  BY <2>1
    <3> HIDE DEF lines
    <3>3. /\ lines \in Seq(Line) /\ Len(lines) = l + (f - e)
          /\ \A i \in 1 .. l + (f - e) : lines[i] = IF i <= l THEN got[a][i] ELSE LinesOf(m + 1)[i - l]
      BY <2>3, <2>4, <3>1, <3>2
    <3>4. QED  BY <3>3
  <2> HIDE DEF lines
  <2>6. EndOf(read[a])' = f  BY <1>1, <2>2, <2>3 DEF EndOf
  <2>7. Len(lines) <= f  BY <2>3, <2>4, <2>5
  <2>8. ASSUME NEW k \in 1 .. Len(lines) PROVE \E j \in 1 .. f : log[j].seq = k
    <3>1. CASE k <= l
      <4>1. k \in 1 .. Len(got[a])  BY <2>4, <3>1
      <4>2. PICK j \in 1 .. e : log[j].seq = k  BY <1>1, <2>1, <2>3, <4>1 DEF Seen, Sight
      <4>3. j \in 1 .. f  BY <2>3
      <4>4. QED  BY <4>2, <4>3
    <3>2. CASE k > l
      <4>1. k - l \in 1 .. (f - e) /\ ~(k <= l) /\ k \in 1 .. l + (f - e)
        <5>1. Len(lines) = l + (f - e)  BY <2>5
        <5>2. k \in 1 .. l + (f - e)  BY <5>1
        <5>3. e <= f  BY <2>3
        <5>4. QED  BY <3>2, <5>2, <5>3
      <4>2. lines[k] = log[e + (k - l)]  BY <2>3, <2>5, <4>1
      <4>3. lines[k].seq = k
        <5>1. k \in DOMAIN lines  BY <2>5
        <5>2. QED  BY <1>3, <5>1 DEF ValidChain
      <4>4. e + (k - l) \in 1 .. f  BY <4>1
      <4>5. QED  BY <4>2, <4>3, <4>4
    <3>3. QED  BY <2>4, <3>1, <3>2
  <2>9. ASSUME NEW k \in 1 .. Len(lines) PROVE Sight(read[a], k)'
    BY <1>1, <2>6, <2>8 DEF Sight
  <2>10. QED  BY <2>2, <2>6, <2>7, <2>9 DEF Seen
<1>4. QED  BY <1>2, <1>3

\* A line is put behind one with the number before its own.
LEMMA NumbersStay ==
    ASSUME Layout, Layout', Numbered, NEW a \in Appends, Quiet(a) \/ \E line : Wrote(a, line)
    PROVE  NoneSkipped'
<1>1. FilesTyped /\ Divided /\ FilesTyped' /\ CallsTyped /\ Reading(a)  BY DEF Layout, Typed
<1>2. Len(log) \in Nat /\ DOMAIN log = 1 .. Len(log) /\ Len(log') \in Nat /\ DOMAIN log' = 1 .. Len(log')
      /\ log' \in Seq(Line) /\ log \in Seq(Line)
  BY <1>1 DEF FilesTyped
<1>3. ASSUME NEW d, NEW at, NEW n \in Nat, Carry(d, at, n),
             d = 1 => \E line : log'[at + 1] = line /\ n = target[a] /\ pc[a] = "write"
                                /\ line.seq = Len(got[a]) + 1
      PROVE  NoneSkipped'
  <2>1. ASSUME NEW j \in 1 .. Len(log), NEW i \in 1 .. Len(log'), i = Place(d, at, j)
        PROVE  /\ log'[i].seq <= i
               /\ log'[i].seq = 1 \/ \E k \in 1 .. (i - 1) : log'[k].seq = log'[i].seq - 1
    <3>1. i = Place(d, at, j) /\ j <= i /\ log'[i].seq = log[j].seq
      BY <2>1,  <1>1, <1>3, Places DEF Carry
    <3>2. log[j] \in Line /\ log[j].seq \in Nat
      <4>1. log[j] \in Line  BY <1>2
      <4>2. QED  BY <4>1 DEF Line
    <3>3. log[j].seq <= j /\ (log[j].seq = 1 \/ \E k \in 1 .. (j - 1) : log[k].seq = log[j].seq - 1)
      BY <1>2 DEF Numbered, NoneSkipped
    <3>4. ASSUME NEW k \in 1 .. (j - 1), log[k].seq = log[j].seq - 1
          PROVE  \E h \in 1 .. (i - 1) : log'[h].seq = log'[i].seq - 1
      <4>1. k \in 1 .. Len(log) /\ k < j  BY <1>2
      <4>2. PICK h \in 1 .. Len(log') : h = Place(d, at, k) /\ h < i /\ log'[h].seq = log[k].seq
        BY <1>1, <1>3, <3>1, <4>1, Places DEF Carry
      <4>3. h \in 1 .. (i - 1)  BY <1>2, <4>2
      <4>4. QED  BY <3>1, <3>4, <4>2, <4>3
    <3>5. log'[i].seq <= i  BY <1>2, <3>1, <3>2, <3>3
    <3>6. QED  BY <3>1, <3>3, <3>4, <3>5
  <2>2. ASSUME d = 1, NEW i \in 1 .. Len(log'), i = at + 1
        PROVE  /\ log'[i].seq <= i
               /\ log'[i].seq = 1 \/ \E k \in 1 .. (i - 1) : log'[k].seq = log'[i].seq - 1
    <3>1. /\ pc[a] = "write" /\ n = target[a] /\ log'[i].seq = Len(got[a]) + 1
          /\ Len(got[a]) \in Nat /\ at \in Nat
      BY <1>1, <1>2, <1>3, <2>2 DEF CallsTyped, Carry
    <3>2. read[a] \in 0 .. Len(files) /\ read[a] <= n
      BY <1>1, <3>1 DEF Reading, CallsTyped, FilesTyped
    <3>3. EndOf(read[a]) <= at /\ EndOf(read[a]) \in 0 .. Len(log)
      BY <1>1, <1>3, <3>2, EndsInOrder DEF Carry
    <3>4. Len(got[a]) <= EndOf(read[a]) /\ \A k \in 1 .. Len(got[a]) : Sight(read[a], k)
      BY <3>1 DEF Numbered, Seen
    <3>5. CASE Len(got[a]) = 0
      BY <2>2, <3>1, <3>5
    <3>6. CASE Len(got[a]) # 0
      <4>1. Len(got[a]) \in 1 .. Len(got[a])  BY <3>1, <3>6
      <4>2. PICK j \in 1 .. EndOf(read[a]) : log[j].seq = Len(got[a])
        BY <3>4, <4>1 DEF Sight
      <4>3. j \in 1 .. Len(log) /\ ~(j > at) /\ j \in 1 .. (i - 1)
        BY <1>2, <2>2, <3>1, <3>3
      <4>4. log'[j].seq = Len(got[a])
        BY <1>3, <4>2, <4>3 DEF Carry, Place
      <4>5. log'[i].seq - 1 = Len(got[a])  BY <3>1
      <4>6. log'[i].seq <= i  BY <2>2, <3>1, <3>3, <3>4
      <4>7. QED  BY <4>3, <4>4, <4>5, <4>6
    <3>7. QED  BY <3>5, <3>6
  <2>3. ASSUME NEW i \in 1 .. Len(log')
        PROVE  /\ log'[i].seq <= i
               /\ log'[i].seq = 1 \/ \E k \in 1 .. (i - 1) : log'[k].seq = log'[i].seq - 1
    <3>1. (\E j \in 1 .. Len(log) : i = Place(d, at, j)) \/ (d = 1 /\ i = at + 1)
      BY <1>1, <1>3, Places
    <3>2. CASE \E j \in 1 .. Len(log) : i = Place(d, at, j)
      BY <2>1, <3>2
    <3>3. CASE d = 1 /\ i = at + 1
      BY <2>2, <3>3
    <3>4. QED  BY <3>1, <3>2, <3>3
  <2>4. QED  BY <1>2, <2>3 DEF NoneSkipped
<1>4. CASE Quiet(a)
  <2>1. Carry(0, Len(log), Len(files) + 1) /\ Len(files) + 1 \in Nat
    BY <1>1, <1>4 DEF Quiet, FilesTyped
  <2>2. QED  BY <1>3, <2>1
<1>5. ASSUME NEW line, Wrote(a, line)
      PROVE  NoneSkipped'
  <2>1. target[a] \in Nat  BY <1>1 DEF CallsTyped
  <2>2. PICK at : Inserted(at, target[a], line) \/ Joined(at, target[a])  BY <1>5 DEF Wrote
  <2>3. CASE Inserted(at, target[a], line)
    <3>1. Carry(1, at, target[a]) /\ log'[at + 1] = line  BY <2>3 DEF Inserted
    <3>2. pc[a] = "write" /\ line.seq = Len(got[a]) + 1  BY <1>5 DEF Wrote
    <3>3. QED  BY <1>3, <2>1, <3>1, <3>2
  <2>4. CASE Joined(at, target[a])
    <3>1. Carry(0, at, target[a])  BY <2>4 DEF Joined
    <3>2. QED  BY <1>3, <2>1, <3>1
  <2>5. QED  BY <2>2, <2>3, <2>4
<1>6. QED  BY <1>4, <1>5

LEMMA NumberedKeeps ==
    ASSUME Layout, Numbered, NEW a \in Appends, Step(a)
    PROVE  Numbered'
<1>1. Layout' /\ (Quiet(a) \/ \E line : Wrote(a, line))  BY LayoutKeeps, StepMoves
<1>2. NoneSkipped'  BY <1>1, NumbersStay
<1>3. PICK d, at, n : Carry(d, at, n) /\ n \in Nat  BY <1>1, StepCarries
<1>4. /\ CallsTyped'
      /\ \A b \in Appends \ {a} : pc'[b] = pc[b] /\ read'[b] = read[b] /\ got'[b] = got[b]
  BY CallsMove
<1>5. ASSUME NEW b \in Appends \ {a} PROVE Seen(b)'
  <2>1. CASE pc[b] \in {"read", "write"}
    BY <1>1, <1>3, <1>4, <2>1, SeenStays DEF Numbered
  <2>2. CASE pc[b] \notin {"read", "write"}
    BY <1>4, <2>2 DEF Seen
  <2>3. QED  BY <2>1, <2>2
<1>6. Seen(a)'
  <2>1. CallsTyped /\ FilesTyped /\ Divided /\ Reading(a) /\ FilesTyped' /\ Divided' /\ Seen(a)
    BY <1>1 DEF Layout, Typed, Numbered
  <2>2. CASE List(a)
    <3>1. read'[a] = 0 /\ got'[a] = <<>>  BY <2>1, <2>2 DEF List, Reading
    <3>2. EndOf(read[a])' = 0  BY <3>1 DEF EndOf
    <3>3. QED  BY <3>1, <3>2 DEF Seen
  <2>3. CASE Read(a)
    BY <2>1, <2>3, ReadSees
  <2>4. CASE WritePath(a)
    <3>1. pc[a] = "read" /\ read' = read /\ got' = got  BY <2>4 DEF WritePath
    <3>2. QED  BY <1>1, <1>3, <2>1, <3>1, SeenStays
  <2>5. CASE Write(a) \/ Tear(a) \/ Stop(a)
    BY <2>1, <2>5 DEF Write, Tear, Stop, Goto, CallsTyped, Seen
  <2>6. QED  BY <2>2, <2>3, <2>4, <2>5 DEF Step
<1>7. QED  BY <1>2, <1>5, <1>6 DEF Numbered

-----------------------------------------------------------------------------
(* The lines of a call. *)

\* A call puts one line at most, and ends with it; what a call that returned has put
\* there is all there, or a line is torn.
Recorded ==
    /\ \A i, j \in DOMAIN log : log[i].by = log[j].by => i = j
    /\ \A i \in DOMAIN log : pc[log[i].by] \in {"returned", "raised"}
    /\ \A a \in Appends : pc[a] = "returned" =>
         Torn \/ \E i \in DOMAIN log : log[i].by = a /\ log[i].tail # "cut"

\* A torn line stays torn, and a line that does not parse does not from then on.
LEMMA DamageStays ==
    ASSUME FilesTyped, Divided, FilesTyped', UNCHANGED regime,
           NEW d, NEW at, NEW n, Carry(d, at, n)
    PROVE  /\ Torn => Torn'
           /\ Damaged => Damaged'
<1>1. ASSUME NEW i \in 1 .. Len(log)
      PROVE  /\ Place(d, at, i) \in DOMAIN log'
             /\ log[i].tail = "cut" => log'[Place(d, at, i)].tail = "cut"
             /\ ~Legible(log[i]) => ~Legible(log'[Place(d, at, i)])
  <2>1. Place(d, at, i) \in 1 .. Len(log')  BY Places
  <2>2. /\ log[i].tail = "cut" => log'[Place(d, at, i)].tail = "cut"
        /\ log'[Place(d, at, i)].by = log[i].by
    BY DEF Carry
  <2>3. QED  BY <2>1, <2>2 DEF FilesTyped, Legible
<1>2. DOMAIN log = 1 .. Len(log)  BY DEF FilesTyped
<1>3. Torn => Torn'  BY <1>1, <1>2 DEF Torn
<1>4. ASSUME Damaged PROVE Damaged'
  <2>1. PICK i \in 1 .. Len(log) : ~Legible(log[i])  BY <1>2, <1>4 DEF Damaged
  <2>2. ~Legible(log'[Place(d, at, i)])  BY <1>1, <2>1
  <2>3. (~Legible(log[Place(d, at, i)]))'  BY <2>2 DEF Legible
  <2>4. QED  BY <1>1, <2>3 DEF Damaged
<1>5. QED  BY <1>3, <1>4

LEMMA RecordedKeeps ==
    ASSUME Layout, Recorded, NEW a \in Appends, UNCHANGED regime, Step(a)
    PROVE  Recorded'
<1>1. Layout' /\ (Quiet(a) \/ \E line : Wrote(a, line))  BY LayoutKeeps, StepMoves
<1>2. FilesTyped /\ Divided /\ FilesTyped' /\ CallsTyped /\ CallsTyped'
  BY <1>1 DEF Layout, Typed
<1>3. /\ log \in Seq(Line) /\ Len(log) \in Nat /\ DOMAIN log = 1 .. Len(log)
      /\ log' \in Seq(Line) /\ DOMAIN log' = 1 .. Len(log')
      /\ \A i \in 1 .. Len(log) : log[i].by \in Appends
  <2>1. log \in Seq(Line) /\ \A i \in 1 .. Len(log) : log[i] \in Line  BY <1>2 DEF FilesTyped
  <2>2. QED  BY <1>2, <2>1 DEF FilesTyped, Line
<1>4. \A b \in Appends \ {a} : pc'[b] = pc[b]  BY CallsMove
<1>5. CASE Quiet(a)
  <2>1. log' = log /\ pc'[a] # "returned"  BY <1>5 DEF Quiet
  <2>2. Torn' <=> Torn  BY <2>1 DEF Torn
  <2>3. \A i \in 1 .. Len(log) : pc'[log[i].by] \in {"returned", "raised"}
    <3> SUFFICES ASSUME NEW i \in 1 .. Len(log) PROVE pc'[log[i].by] \in {"returned", "raised"}
      OBVIOUS
    <3>1. pc[log[i].by] \in {"returned", "raised"} /\ log[i].by \in Appends
      BY <1>3 DEF Recorded
    <3>2. CASE log[i].by # a
      BY <1>4, <3>1, <3>2
    <3>3. pc[a] \notin {"returned", "raised"}
      BY DEF Step, List, Read, WritePath, Write, Tear, Stop, InProgress
    <3>4. QED  BY <3>1, <3>2, <3>3
  <2>4. QED  BY <1>3, <1>4, <2>1, <2>2, <2>3 DEF Recorded
<1>6. ASSUME NEW line, Wrote(a, line)
      PROVE  Recorded'
  <2>1. PICK at : Inserted(at, target[a], line) \/ Joined(at, target[a])  BY <1>6 DEF Wrote
  <2>2. PICK d : /\ Carry(d, at, target[a])
                 /\ d = 1 => Inserted(at, target[a], line)
                 /\ d # 1 => Torn'
    BY <2>1 DEF Inserted, Joined
  <2>3. /\ pc[a] = "write" /\ pc'[a] \in {"returned", "raised"} /\ line.by = a
        /\ pc'[a] = "returned" => line.tail # "cut"
    BY <1>6 DEF Wrote
  <2>4. \A j \in 1 .. Len(log) : /\ Place(d, at, j) \in 1 .. Len(log')
                                 /\ log'[Place(d, at, j)].by = log[j].by
                                 /\ log[j].by # a
                                 /\ pc'[log[j].by] \in {"returned", "raised"}
    <3> SUFFICES ASSUME NEW j \in 1 .. Len(log)
                 PROVE  /\ Place(d, at, j) \in 1 .. Len(log')
                        /\ log'[Place(d, at, j)].by = log[j].by
                        /\ log[j].by # a
                        /\ pc'[log[j].by] \in {"returned", "raised"}
      OBVIOUS
    <3>1. Place(d, at, j) \in 1 .. Len(log') /\ log'[Place(d, at, j)].by = log[j].by
      BY <1>2, <2>2, Places DEF Carry
    <3>2. pc[log[j].by] \in {"returned", "raised"}  BY <1>3 DEF Recorded
    <3>3. QED  BY <1>3, <1>4, <2>3, <3>1, <3>2
  <2>5. ASSUME NEW i \in 1 .. Len(log')
        PROVE  \/ \E j \in 1 .. Len(log) : i = Place(d, at, j)
               \/ d = 1 /\ i = at + 1 /\ log'[i] = line
    <3>1. (\E j \in 1 .. Len(log) : i = Place(d, at, j)) \/ (d = 1 /\ i = at + 1)
      BY <1>2, <2>2, Places
    <3>2. d = 1 => log'[at + 1] = line  BY <2>2 DEF Inserted
    <3>3. QED  BY <3>1, <3>2
  <2>6. ASSUME NEW i \in 1 .. Len(log'), NEW k \in 1 .. Len(log'), log'[i].by = log'[k].by
        PROVE  i = k
    <3>1. CASE log'[i].by = a
      <4>1. \A h \in 1 .. Len(log') : log'[h].by = a => h = at + 1
        <5> SUFFICES ASSUME NEW h \in 1 .. Len(log'), log'[h].by = a PROVE h = at + 1
          OBVIOUS
        <5>1. ~ \E j \in 1 .. Len(log) : h = Place(d, at, j)  BY <2>4
        <5>2. QED  BY <2>5, <5>1
      <4>2. QED  BY <2>6, <3>1, <4>1
    <3>2. CASE log'[i].by # a
      <4>1. PICK j \in 1 .. Len(log) : i = Place(d, at, j)  BY <2>3, <2>5, <3>2
      <4>2. PICK h \in 1 .. Len(log) : k = Place(d, at, h)  BY <2>3, <2>5, <2>6, <3>2
      <4>3. log[j].by = log[h].by  BY <2>4, <2>6, <4>1, <4>2
      <4>4. j = h  BY <1>3, <4>3 DEF Recorded
      <4>5. QED  BY <4>1, <4>2, <4>4
    <3>3. QED  BY <3>1, <3>2
  <2>7. ASSUME NEW i \in 1 .. Len(log')
        PROVE  pc'[log'[i].by] \in {"returned", "raised"}
    BY <2>3, <2>4, <2>5
  <2>8. ASSUME NEW b \in Appends, pc'[b] = "returned", ~Torn'
        PROVE  \E i \in 1 .. Len(log') : log'[i].by = b /\ log'[i].tail # "cut"
    <3>1. d = 1 /\ Inserted(at, target[a], line)  BY <2>2, <2>8
    <3>2. CASE b = a
      <4>1. at + 1 \in 1 .. Len(log') /\ log'[at + 1] = line
        BY <1>3, <2>2, <3>1 DEF Carry, Inserted
      <4>2. QED  BY <2>3, <2>8, <3>2, <4>1
    <3>3. CASE b # a
      <4>1. ~Torn  BY <1>2, <2>2, <2>8, DamageStays
      <4>2. pc[b] = "returned"  BY <1>4, <2>8, <3>3
      <4>3. PICK j \in 1 .. Len(log) : log[j].by = b /\ log[j].tail # "cut"
        BY <1>3, <4>1, <4>2 DEF Recorded
      <4>4. log'[Place(1, at, j)].tail = log[j].tail  BY <3>1 DEF Inserted
      <4>5. QED  BY <2>4, <3>1, <4>3, <4>4
    <3>4. QED  BY <3>2, <3>3
  <2>9. QED  BY <1>3, <2>6, <2>7, <2>8 DEF Recorded
<1>7. QED  BY <1>1, <1>5, <1>6

-----------------------------------------------------------------------------
(* A damaged line.  A call that begins once there is one lists a file that holds it *)
(* and has not read that file yet; when it reads it, it ends.                        *)

\* The files that call a has still to read hold a damaged line.
Ahead(a) ==
    \E i \in DOMAIN log : ~Legible(log[i]) /\ EndOf(read[a]) < i /\ i <= EndOf(listed[a])

Doomed(a) ==
    \/ pc[a] = "idle" /\ Damaged
    \/ pc[a] = "read" /\ Ahead(a)
    \/ pc[a] = "raised"

\* The damaged line stays in the files it is in.
LEMMA AheadStays ==
    ASSUME Layout, Layout', UNCHANGED regime, NEW d, NEW at, NEW n \in Nat, Carry(d, at, n),
           NEW a \in Appends, pc[a] = "read", Ahead(a), read'[a] = read[a], listed'[a] = listed[a]
    PROVE  Ahead(a)'
<1>1. FilesTyped /\ Divided /\ FilesTyped' /\ read[a] \in 0 .. Len(files) /\ listed[a] \in 0 .. Len(files)
  BY DEF Layout, Typed, FilesTyped, CallsTyped, Reading
<1>2. PICK i \in 1 .. Len(log) : ~Legible(log[i]) /\ EndOf(read[a]) < i /\ i <= EndOf(listed[a])
  BY <1>1 DEF Ahead, FilesTyped
<1>3. PICK m, k \in 0 .. Len(files) : m = read[a] /\ k = listed[a]  BY <1>1
<1>4. EndOf(m) \in Nat /\ EndOf(k) \in Nat /\ EndOf(read[a])' = EndOf(m)' /\ EndOf(listed[a])' = EndOf(k)'
  BY <1>1, <1>3, EndsInOrder DEF EndOf, FilesTyped
<1>5. PICK h \in 1 .. Len(log') : h = Place(d, at, i)  BY <1>1, Places
<1>6. /\ i <= EndOf(m) <=> h <= EndOf(m)'
      /\ i <= EndOf(k) <=> h <= EndOf(k)'
  BY <1>1, <1>5, Places
<1>7. EndOf(m)' \in Nat
  <2>1. m < n \/ m >= n  BY <1>3
  <2>2. d \in {0, 1} /\ (m < n => EndOf(m)' = EndOf(m)) /\ (m >= n => EndOf(m)' = EndOf(m) + d)
    BY DEF Carry
  <2>3. QED  BY <1>4, <2>1, <2>2
<1>8. h \in DOMAIN log' /\ (~Legible(log[h]))'
  <2>1. /\ h \in DOMAIN log' /\ log'[h].by = log[i].by
        /\ log[i].tail = "cut" => log'[h].tail = "cut"
    BY <1>1, <1>5 DEF Carry, FilesTyped
  <2>2. QED  BY <1>2, <2>1 DEF Legible
<1>9. EndOf(m)' < h /\ h <= EndOf(k)'
  BY <1>2, <1>3, <1>4, <1>6, <1>7
<1>10. QED  BY <1>4, <1>8, <1>9 DEF Ahead

\* To read the file with the damaged line is to end.
LEMMA ReadMeets ==
    ASSUME Layout, UNCHANGED regime, NEW a \in Appends, pc[a] = "read", Ahead(a), Read(a)
    PROVE  Doomed(a)'
<1> DEFINE lines == got[a] \o LinesOf(read[a] + 1)
<1>1. CallsTyped /\ FilesTyped /\ Divided /\ Reading(a) /\ UNCHANGED <<log, files, listed>>
  BY DEF Layout, Typed, Read
<1>2. CASE ~ValidChain(lines)
  BY <1>1, <1>2 DEF Read, Goto, CallsTyped, Doomed
<1>3. CASE ValidChain(lines)
  <2>1. PICK m \in Nat : m = read[a] /\ m < Len(files)
    BY <1>1 DEF Read, Reading, CallsTyped, FilesTyped
  <2>2. read'[a] = m + 1 /\ pc'[a] = "read"
    BY <1>1, <1>3, <2>1 DEF Read, CallsTyped
  <2>3. PICK i \in 1 .. Len(log) : ~Legible(log[i]) /\ EndOf(m) < i /\ i <= EndOf(listed[a])
    BY <1>1, <2>1 DEF Ahead, FilesTyped
  <2>4. /\ LinesOf(m + 1) \in Seq(Line) /\ Len(LinesOf(m + 1)) = EndOf(m + 1) - EndOf(m)
        /\ EndOf(m) \in 0 .. Len(log) /\ EndOf(m + 1) \in EndOf(m) .. Len(log)
        /\ \A j \in 1 .. (EndOf(m + 1) - EndOf(m)) : LinesOf(m + 1)[j] = log[EndOf(m) + j]
    BY <1>1, <2>1, FileLines
  <2>5. EndOf(m) \in Nat /\ EndOf(m + 1) \in Nat /\ Len(log) \in Nat /\ got[a] \in Seq(Line)
        /\ Len(got[a]) \in Nat
    BY <1>1, <2>4 DEF FilesTyped, CallsTyped
  <2>6. ~(i <= EndOf(m + 1))
    <3> SUFFICES ASSUME i <= EndOf(m + 1) PROVE FALSE
      OBVIOUS
    <3>1. PICK j \in 1 .. (EndOf(m + 1) - EndOf(m)) : EndOf(m) + j = i
      <4>1. i - EndOf(m) \in 1 .. (EndOf(m + 1) - EndOf(m)) /\ EndOf(m) + (i - EndOf(m)) = i
        BY <2>3, <2>5
      <4>2. QED  BY <4>1
    <3>2. LinesOf(m + 1)[j] = log[i]  BY <2>4, <3>1
    <3>3. j \in 1 .. Len(LinesOf(m + 1)) /\ Len(LinesOf(m + 1)) \in Nat  BY <2>4, <2>5
    <3>4. /\ got[a] \o LinesOf(m + 1) \in Seq(Line)
          /\ Len(got[a] \o LinesOf(m + 1)) = Len(got[a]) + Len(LinesOf(m + 1))
          /\ \A k \in 1 .. Len(got[a]) + Len(LinesOf(m + 1)) :
               (got[a] \o LinesOf(m + 1))[k] =
                 IF k <= Len(got[a]) THEN got[a][k] ELSE LinesOf(m + 1)[k - Len(got[a])]
      <4>1. LinesOf(m + 1) \in Seq(Line) /\ got[a] \in Seq(Line)  BY <2>4, <2>5
      <4>2. QED  BY <4>1, ConcatProperties
    <3>5. PICK k \in 1 .. Len(got[a]) + Len(LinesOf(m + 1)) :
            ~(k <= Len(got[a])) /\ k - Len(got[a]) = j
      <4>1. Len(got[a]) + j \in 1 .. Len(got[a]) + Len(LinesOf(m + 1))
        <5>1. PICK l, w \in Nat : l = Len(got[a]) /\ w = Len(LinesOf(m + 1))  BY <2>5, <3>3
        <5>2. j \in 1 .. w  BY <3>3, <5>1
        <5>3. l + j \in 1 .. l + w  BY <5>2
        <5>4. QED  BY <5>1, <5>3
      <4>2. ~(Len(got[a]) + j <= Len(got[a])) /\ (Len(got[a]) + j) - Len(got[a]) = j
        BY <2>5, <3>3
      <4>3. QED  BY <4>1, <4>2
    <3>6. lines = got[a] \o LinesOf(m + 1)  BY <2>1
    <3> HIDE DEF lines
    <3>7. lines[k] = log[i] /\ k \in DOMAIN lines
      <4>1. lines \in Seq(Line) /\ Len(lines) = Len(got[a]) + Len(LinesOf(m + 1))
        BY <3>4, <3>6
      <4>2. lines[k] = LinesOf(m + 1)[j]  BY <3>4, <3>5, <3>6
      <4>3. DOMAIN lines = 1 .. Len(lines)  BY <4>1
      <4>4. QED  BY <3>2, <3>5, <4>1, <4>2, <4>3
    <3>8. Legible(lines[k])  BY <1>3, <3>7 DEF ValidChain
    <3>9. QED  BY <2>3, <3>7, <3>8
  <2>7. EndOf(read[a])' = EndOf(m + 1) /\ EndOf(listed[a])' = EndOf(listed[a])
    BY <1>1, <2>2 DEF EndOf
  <2>8. EndOf(m + 1) < i  BY <2>5, <2>6
  <2>9. Ahead(a)'
    <3>1. i \in DOMAIN log' /\ (~Legible(log[i]))'  BY <1>1, <2>3 DEF FilesTyped, Legible
    <3>2. QED  BY <2>3, <2>7, <2>8, <3>1 DEF Ahead
  <2>10. QED  BY <2>2, <2>9 DEF Doomed
<1>4. QED  BY <1>2, <1>3

LEMMA DoomedStays ==
    ASSUME Layout, NEW a \in Appends, NEW b \in Appends, Doomed(b), UNCHANGED regime, Step(a)
    PROVE  Doomed(b)'
<1>1. Layout' /\ (Quiet(a) \/ \E line : Wrote(a, line))  BY LayoutKeeps, StepMoves
<1>2. PICK d, at, n : Carry(d, at, n) /\ n \in Nat  BY <1>1, StepCarries
<1>3. CallsTyped /\ FilesTyped /\ Divided /\ Reading(b) /\ FilesTyped'  BY <1>1 DEF Layout, Typed
<1>4. CASE b # a
  <2>1. pc'[b] = pc[b] /\ read'[b] = read[b] /\ listed'[b] = listed[b]  BY <1>4, CallsMove
  <2>2. CASE pc[b] = "idle" /\ Damaged
    BY <1>2, <1>3, <2>1, <2>2, DamageStays DEF Doomed
  <2>3. CASE pc[b] = "read" /\ Ahead(b)
    BY <1>1, <1>2, <2>1, <2>3, AheadStays DEF Doomed
  <2>4. CASE pc[b] = "raised"
    BY <2>1, <2>4 DEF Doomed
  <2>5. QED  BY <2>2, <2>3, <2>4 DEF Doomed
<1>5. CASE b = a
  <2>1. CASE List(a)
    <3>1. PICK i \in 1 .. Len(log) : ~Legible(log[i])
      BY <1>3, <1>5, <2>1 DEF List, Doomed, Damaged, FilesTyped
    <3>2. /\ pc'[a] = "read" /\ listed'[a] = Len(files) /\ read'[a] = 0
          /\ log' = log /\ files' = files
      BY <1>3, <1>5, <2>1 DEF List, Goto, CallsTyped, Reading
    <3>3. EndOf(read[a])' = 0 /\ EndOf(listed[a])' = EndOf(Len(files)) /\ EndOf(Len(files)) = Len(log)
      BY <1>3, <3>2, EndsInOrder DEF EndOf
    <3>4. 0 < i /\ i <= Len(log) /\ i \in DOMAIN log'  BY <1>3, <3>2 DEF FilesTyped
    <3>5. Ahead(a)'
      <4>1. (~Legible(log[i]))'  BY <3>1, <3>2 DEF Legible
      <4>2. QED  BY <3>2, <3>3, <3>4, <4>1 DEF Ahead
    <3>6. QED  BY <1>5, <3>2, <3>5 DEF Doomed
  <2>2. CASE Read(a)
    <3>1. pc[a] = "read" /\ Ahead(a)  BY <1>5, <2>2 DEF Read, Doomed
    <3>2. QED  BY <1>5, <2>2, <3>1, ReadMeets
  <2>3. CASE WritePath(a)
    <3>1. pc[a] = "read" /\ read[a] = listed[a] /\ Ahead(a)
      BY <1>5, <2>3 DEF WritePath, Doomed
    <3>2. PICK i \in 1 .. Len(log) : EndOf(read[a]) < i /\ i <= EndOf(read[a])
      BY <1>3, <3>1 DEF Ahead, FilesTyped
    <3>3. read[a] \in 0 .. Len(files)
      BY <1>3, <1>5, <3>1 DEF Reading, CallsTyped, FilesTyped
    <3>4. EndOf(read[a]) \in 0 .. Len(log) /\ Len(log) \in Nat
      BY <1>3, <3>3, EndsInOrder DEF FilesTyped
    <3>5. QED  BY <3>2, <3>4
  <2>4. CASE Stop(a)
    BY <1>3, <1>5, <2>4 DEF Stop, Goto, CallsTyped, Doomed
  <2>5. CASE Write(a) \/ Tear(a)
    BY <1>5, <2>5 DEF Write, Tear, Doomed
  <2>6. QED  BY <2>1, <2>2, <2>3, <2>4, <2>5 DEF Step
<1>6. QED  BY <1>4, <1>5

-----------------------------------------------------------------------------
(* What holds in every regime. *)

Sound == Layout /\ Numbered /\ Recorded

LEMMA SoundBegins == Init => Sound
<1> SUFFICES ASSUME Init PROVE Sound
  OBVIOUS
<1>1. Typed /\ Divided
  BY DEF Init, Typed, FilesTyped, CallsTyped, Divided
<1>2. \A a \in Appends : pc[a] = "idle" /\ read[a] = 0 /\ got[a] = <<>>
  BY DEF Init
<1>3. Layout  BY <1>1, <1>2 DEF Layout, Reading
<1>4. log = <<>>  BY DEF Init
<1>5. Numbered  BY <1>2, <1>4 DEF Numbered, NoneSkipped, Seen
<1>6. Recorded  BY <1>2, <1>4 DEF Recorded
<1>7. QED  BY <1>3, <1>5, <1>6 DEF Sound

LEMMA SoundSteps == Sound /\ [Next]_vars => Sound'
<1> SUFFICES ASSUME Sound, [Next]_vars PROVE Sound'
  OBVIOUS
<1>1. CASE UNCHANGED vars
  <2>1. UNCHANGED <<regime, log, files, pc, listed, read, got, target>>  BY <1>1 DEF vars
  <2>2. \A m : EndOf(m)' = EndOf(m)  BY <2>1 DEF EndOf
  <2>3. Layout'
    BY <2>1, <2>2 DEF Sound, Layout, Typed, FilesTyped, CallsTyped, Divided, Reading
  <2>4. \A a \in Appends : EndOf(read[a])' = EndOf(read[a])  BY <2>1 DEF EndOf
  <2>5. Numbered'
    BY <2>1, <2>4 DEF Sound, Numbered, NoneSkipped, Seen, Sight
  <2>6. Recorded'  BY <2>1 DEF Sound, Recorded, Torn
  <2>7. QED  BY <2>3, <2>5, <2>6 DEF Sound
<1>2. CASE UNCHANGED regime /\ \E a \in Appends : Step(a)
  BY <1>2, LayoutKeeps, NumberedKeeps, RecordedKeeps DEF Sound
<1>3. QED  BY <1>1, <1>2 DEF Next, AllEnded

LEMMA SoundHolds == Spec => []Sound
<1>1. QED  BY SoundBegins, SoundSteps, PTL DEF Spec

\* However many calls overlap, stop or are cut short, a sequence number may be given
\* twice, and none is skipped (archive/jsonl.py: append).
THEOREM NumbersAreContiguous == Spec => []NoneSkipped
<1>1. Sound => NoneSkipped  BY DEF Sound, Numbered
<1>2. QED  BY <1>1, SoundHolds, PTL

\* Whatever overlaps, the event of a call that returned is in the archive once and its
\* line parses, unless its own payload splits when it is read or a line is torn
\* (archive/jsonl.py: append, validate_chain).
THEOREM ReturnedStaysRecorded == Spec => []ReturnedIsRecorded
<1>1. ASSUME Sound PROVE ReturnedIsRecorded
  <2> SUFFICES ASSUME NEW a \in Appends, pc[a] = "returned"
               PROVE  LET n == Cardinality({i \in DOMAIN log : log[i].by = a /\ Legible(log[i])})
                      IN  n = 1 \/ (n = 0 /\ (a \in regime.split \/ Torn))
    BY DEF ReturnedIsRecorded
  <2> DEFINE own == {i \in DOMAIN log : log[i].by = a /\ Legible(log[i])}
  <2>1. \A i, j \in own : i = j  BY <1>1 DEF Sound, Recorded
  <2>2. CASE own = {}
    <3>1. a \in regime.split \/ Torn  BY <1>1, <2>2 DEF Sound, Recorded, Legible
    <3>2. Cardinality(own) = 0  BY <2>2, FS_EmptySet
    <3>3. QED  BY <3>1, <3>2
  <2>3. CASE own # {}
    <3>1. PICK i : i \in own  BY <2>3
    <3>2. own = {i}  BY <2>1, <3>1
    <3>3. Cardinality(own) = 1  BY <3>2, FS_Singleton
    <3>4. QED  BY <3>3
  <2>4. QED  BY <2>2, <2>3
<1>2. QED  BY <1>1, SoundHolds, PTL

\* A call that begins once a line does not parse, torn or split, never returns, whatever
\* the calls do that were under way (archive/jsonl.py: append, validate_chain).
THEOREM DamageStaysFinal == Spec => DamageIsFinal
<1> SUFFICES ASSUME NEW a \in Appends
             PROVE  Spec => [](pc[a] = "idle" /\ Damaged => [](pc[a] # "returned"))
  BY DEF DamageIsFinal
<1>1. Sound /\ Doomed(a) /\ [Next]_vars => Doomed(a)'
  <2> SUFFICES ASSUME Sound, Doomed(a), [Next]_vars PROVE Doomed(a)'
    OBVIOUS
  <2>1. CASE UNCHANGED vars
    <3>1. UNCHANGED <<regime, log, files, pc, listed, read>>  BY <2>1 DEF vars
    <3>2. EndOf(read[a])' = EndOf(read[a]) /\ EndOf(listed[a])' = EndOf(listed[a])
      BY <3>1 DEF EndOf
    <3>3. QED  BY <3>1, <3>2 DEF Doomed, Damaged, Ahead, Legible
  <2>2. CASE UNCHANGED regime /\ \E b \in Appends : Step(b)
    BY <2>2, DoomedStays DEF Sound
  <2>3. QED  BY <2>1, <2>2 DEF Next, AllEnded
<1>2. pc[a] = "idle" /\ Damaged => Doomed(a)  BY DEF Doomed
<1>3. Doomed(a) => pc[a] # "returned"  BY DEF Doomed
<1>4. QED  BY <1>1, <1>2, <1>3, SoundHolds, PTL DEF Spec
=============================================================================
