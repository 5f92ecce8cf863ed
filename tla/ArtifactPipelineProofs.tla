----------------------- MODULE ArtifactPipelineProofs -----------------------
(***************************************************************************)
(* For every number of compiles, downloads, deployments and deletions of a *)
(* session, with failures and crashes at every step: what a compile has    *)
(* left when it is answered, what the registry and the archive may tell,   *)
(* and that no part of a file is delivered.                                *)
(*                                                                         *)
(* The argument.  A compile goes through its labels once and in order.     *)
(* `Progress` says for each label what it has left by then; everything it  *)
(* leaves stays, except the row, which goes with the session.              *)
(***************************************************************************)
EXTENDS ArtifactPipeline, TLAPS

Written == {"insert", "check", "rename"}
Renamed == {"rewrite", "reread", "register", "produced"}
Rewritten == {"reread", "register", "produced"}

Begun(c) == pc[c] \notin {"idle", "write"}
HasWhole(c) == \E n \in Names : disk[c][n] = "whole"
NoPart(c) == \A n \in Names : disk[c][n] # "part"

\* What compile c has left when it has come to where it is.
Progress(c) ==
    /\ pc[c] \in {"idle", "write"} \cup Written \cup Renamed \cup {"done"}
    /\ pc[c] \in {"idle", "write", "insert"} => rows[c] = Nothing
    /\ pc[c] \in {"idle", "write"} => \A n \in Names : disk[c][n] = "absent"
    /\ pc[c] \in Written => disk[c]["temporary"] = "whole" /\ disk[c]["final"] = "absent"
    /\ pc[c] \in Renamed => disk[c]["final"] = "whole" /\ disk[c]["temporary"] = "absent"
    /\ pc[c] \in {"check", "rename", "rewrite"} /\ present => rows[c] = "temporary"
    /\ pc[c] \in Rewritten /\ present => rows[c] = "final"
    /\ pc[c] \in Rewritten => rows[c] # "temporary"
    /\ rows[c] # Nothing => NoPart(c)

\* What outlasts the handler.
Left(c) ==
    /\ registry[c] # "absent" =>
         /\ pc[c] \in {"produced", "done"}
         /\ disk[c]["final"] = "whole"
         /\ rows[c] # "temporary"
         /\ present => rows[c] = "final"
    /\ <<"compile.produced", c>> \in archived => registry[c] # "absent"
    /\ <<"registry.deployed", c>> \in archived => registry[c] = "deployed"
    /\ <<"artifact.downloaded", c>> \in archived => Begun(c) /\ HasWhole(c)
    /\ code[c] = 200 => registry[c] # "absent" /\ <<"compile.produced", c>> \in archived
    /\ pc[c] = "produced" => registry[c] # "absent"

\* What the handler of another request may rely on: the file it is about to read
\* will not be cut short, what it read was whole, what it deployed is registered.
Reader(r) ==
    /\ pc[r] \in {"idle", "read", "mark", "downloaded", "deployed", "deleted", "done"}
    /\ held[r].bytes # "part"
    /\ pc[r] = "read" => Begun(held[r].artifact) /\ NoPart(held[r].artifact)
    /\ pc[r] \in {"mark", "downloaded"} => Begun(held[r].artifact) /\ HasWhole(held[r].artifact)
    /\ pc[r] = "deployed" => registry[held[r].artifact] = "deployed"

Inv == /\ TypeOK
       /\ \A c \in Compiles : Progress(c) /\ Left(c)
       /\ \A r \in Others : Reader(r)

\* A handler moves to a label, or is answered.
LEMMA Moves ==
    ASSUME TypeOK, NEW r \in Requests
    PROVE  /\ \A l \in Labels : Goto(r, l) =>
                pc' \in [Requests -> Labels] /\ code' \in [Requests -> Codes]
           /\ \A s \in Codes : Answer(r, s) =>
                pc' \in [Requests -> Labels] /\ code' \in [Requests -> Codes]
           /\ Raise(r) => pc' \in [Requests -> Labels] /\ code' \in [Requests -> Codes]
<1>1. pc \in [Requests -> Labels] /\ code \in [Requests -> Codes]  BY DEF TypeOK
<1>2. \A l \in Labels : Goto(r, l) =>
        pc' \in [Requests -> Labels] /\ code' \in [Requests -> Codes]
  BY <1>1 DEF Goto
<1>3. "done" \in Labels /\ 500 \in Codes  BY DEF Labels, Codes
<1>4. \A s \in Codes : Answer(r, s) =>
        pc' \in [Requests -> Labels] /\ code' \in [Requests -> Codes]
  BY <1>1, <1>3 DEF Answer
<1>5. QED  BY <1>2, <1>3, <1>4 DEF Raise

\* No other handler moves.
Same(r) == \A q \in Requests \ {r} : pc'[q] = pc[q] /\ code'[q] = code[q]

LEMMA Alone ==
    ASSUME TypeOK, NEW r \in Requests
    PROVE  /\ \A l : Goto(r, l) => Same(r) /\ pc'[r] = l
           /\ \A s : Answer(r, s) => Same(r) /\ pc'[r] = "done"
           /\ Raise(r) => Same(r) /\ pc'[r] = "done"
<1>1. pc \in [Requests -> Labels] /\ code \in [Requests -> Codes]  BY DEF TypeOK
<1>2. \A l : Goto(r, l) => Same(r) /\ pc'[r] = l  BY <1>1 DEF Goto, Same
<1>3. \A s : Answer(r, s) => Same(r) /\ pc'[r] = "done"  BY <1>1 DEF Answer, Same
<1>4. QED  BY <1>2, <1>3 DEF Raise

\* Initially nothing exists and nobody has started.
LEMMA InitInv == Init => Inv
  BY RequestsAssumption
     DEF Init, Inv, TypeOK, Progress, Left, Reader, Requests, Names, Contents, Events, Unheld,
         Labels, Codes, Holding, Begun, NoPart, HasWhole, Written, Renamed, Rewritten

-----------------------------------------------------------------------------
(* A step of a compile. *)

\* Nothing of another compile, and no other handler, changes.
Only(c) ==
    /\ UNCHANGED <<present, held>>
    /\ \A d \in Compiles \ {c} : /\ rows'[d] = rows[d] /\ disk'[d] = disk[d]
                                 /\ registry'[d] = registry[d]
    /\ \A r \in Requests \ {c} : pc'[r] = pc[r] /\ code'[r] = code[r]
    /\ archived \subseteq archived'
    /\ archived' \subseteq archived \cup {<<"compile.produced", c>>}

\* What others rely on stays.
Grows(c) ==
    /\ Begun(c) => Begun(c)'
    /\ Begun(c) /\ NoPart(c) => NoPart(c)'
    /\ Begun(c) /\ HasWhole(c) => HasWhole(c)'
    /\ registry[c] = "deployed" => registry'[c] = "deployed"

\* The rest of the invariant follows from what the step does to its own compile.
LEMMA OwnCompile ==
    ASSUME Inv, NEW c \in Compiles, Only(c), Grows(c), TypeOK', Progress(c)', Left(c)'
    PROVE  Inv'
<1>1. \A d \in Compiles \ {c} : Progress(d)' /\ Left(d)'
  <2> SUFFICES ASSUME NEW d \in Compiles \ {c}  PROVE Progress(d)' /\ Left(d)'
    OBVIOUS
  <2>1. /\ rows'[d] = rows[d] /\ disk'[d] = disk[d] /\ registry'[d] = registry[d]
        /\ pc'[d] = pc[d] /\ code'[d] = code[d] /\ present' = present
        /\ \A e \in Events : <<e, d>> \in archived' <=> <<e, d>> \in archived
    BY DEF Only, Requests
  <2>2. Progress(d) /\ Left(d)  BY DEF Inv
  <2>3. Progress(d)'  BY <2>1, <2>2 DEF Progress, NoPart
  <2>4. Left(d)'  BY <2>1, <2>2 DEF Left, Begun, HasWhole, Events
  <2>5. QED  BY <2>3, <2>4
<1>2. \A r \in Others : Reader(r)'
  <2> SUFFICES ASSUME NEW r \in Others  PROVE Reader(r)'
    OBVIOUS
  <2>1. Reader(r) /\ pc'[r] = pc[r] /\ held'[r] = held[r]
    BY RequestsAssumption DEF Inv, Only, Requests
  <2>2. pc[r] \in Holding => held[r].artifact \in Compiles
    BY DEF Inv, TypeOK
  <2>3. CASE pc[r] \notin Holding  BY <2>1, <2>3 DEF Reader, Holding
  <2>4. CASE pc[r] \in Holding
    <3> DEFINE a == held[r].artifact
    <3>1. a \in Compiles  BY <2>2, <2>4
    <3>2. CASE a = c  BY <2>1, <2>4, <3>2 DEF Reader, Grows, Holding
    <3>3. CASE a # c
      <4>1. pc'[a] = pc[a] /\ disk'[a] = disk[a] /\ registry'[a] = registry[a]
        BY <3>1, <3>3 DEF Only, Requests
      <4>2. QED  BY <2>1, <4>1 DEF Reader, Begun, NoPart, HasWhole
    <3>4. QED  BY <3>2, <3>3
  <2>5. QED  BY <2>3, <2>4
<1>3. QED  BY <1>1, <1>2 DEF Inv

\* A compile that is received has left nothing.
LEMMA ReceiveCompileInv == ASSUME Inv, NEW c \in Compiles, ReceiveCompile(c) PROVE Inv'
<1>1. TypeOK /\ Progress(c) /\ Left(c) /\ c \in Requests /\ c \notin Others
  BY RequestsAssumption DEF Inv, Requests
<1>2. Only(c)
  BY <1>1 DEF ReceiveCompile, TypeOK, Only, stores, Goto, Answer, Raise
<1>3. TypeOK'
  <2>1. /\ present' \in BOOLEAN
        /\ rows' \in [Compiles -> Names \cup {Nothing}]
        /\ disk' \in [Compiles -> [Names -> Contents]]
        /\ registry' \in [Compiles -> {"absent", "created", "deployed"}]
        /\ archived' \subseteq Events \X (Compiles \cup {Nothing})
    BY <1>1 DEF ReceiveCompile, TypeOK, stores, Names, Contents, Events
  <2>2. pc' \in [Requests -> Labels] /\ code' \in [Requests -> Codes]
    BY <1>1, Moves DEF ReceiveCompile, Labels, Codes
  <2>3. \A r \in Others : pc'[r] \in Holding => held'[r].artifact # Nothing
    BY <1>1, <1>2 DEF TypeOK, Only, Requests
  <2>4. held' \in [Others -> [artifact : Compiles \cup {Nothing}, name : Names, bytes : Contents]]
    BY <1>1, <1>2 DEF TypeOK, Only
  <2>5. QED  BY <2>1, <2>2, <2>3, <2>4 DEF TypeOK
<1>4. Grows(c)
  BY <1>1 DEF ReceiveCompile, TypeOK, Progress, Left, Grows, Begun, NoPart, HasWhole, stores, Goto,
     Answer, Raise, Names, Contents, Written, Renamed, Rewritten
<1>5. Progress(c)'
  BY <1>1 DEF ReceiveCompile, TypeOK, Progress, Left, NoPart, stores, Goto, Answer, Raise, Names,
     Contents, Written, Renamed, Rewritten
<1>6. Left(c)'
  BY <1>1 DEF ReceiveCompile, TypeOK, Progress, Left, Begun, NoPart, HasWhole, stores, Goto,
     Answer, Raise, Names, Contents, Events, Written, Renamed, Rewritten
<1>7. QED  BY <1>2, <1>3, <1>4, <1>5, <1>6, OwnCompile

\* What is cut short is under a name no row has.
LEMMA WriteFileInv == ASSUME Inv, NEW c \in Compiles, WriteFile(c) PROVE Inv'
<1>1. TypeOK /\ Progress(c) /\ Left(c) /\ c \in Requests /\ c \notin Others
  BY RequestsAssumption DEF Inv, Requests
<1>2. Only(c)
  BY <1>1 DEF WriteFile, TypeOK, Only, stores, Goto, Answer, Raise
<1>3. TypeOK'
  <2>1. /\ present' \in BOOLEAN
        /\ rows' \in [Compiles -> Names \cup {Nothing}]
        /\ disk' \in [Compiles -> [Names -> Contents]]
        /\ registry' \in [Compiles -> {"absent", "created", "deployed"}]
        /\ archived' \subseteq Events \X (Compiles \cup {Nothing})
    BY <1>1 DEF WriteFile, TypeOK, stores, Names, Contents, Events
  <2>2. pc' \in [Requests -> Labels] /\ code' \in [Requests -> Codes]
    BY <1>1, Moves DEF WriteFile, Labels, Codes
  <2>3. \A r \in Others : pc'[r] \in Holding => held'[r].artifact # Nothing
    BY <1>1, <1>2 DEF TypeOK, Only, Requests
  <2>4. held' \in [Others -> [artifact : Compiles \cup {Nothing}, name : Names, bytes : Contents]]
    BY <1>1, <1>2 DEF TypeOK, Only
  <2>5. QED  BY <2>1, <2>2, <2>3, <2>4 DEF TypeOK
<1>4. Grows(c)
  BY <1>1 DEF WriteFile, TypeOK, Progress, Left, Grows, Begun, NoPart, HasWhole, stores, Goto,
     Answer, Raise, Names, Contents, Written, Renamed, Rewritten
<1>5. Progress(c)'
  BY <1>1 DEF WriteFile, TypeOK, Progress, Left, NoPart, stores, Goto, Answer, Raise, Names,
     Contents, Written, Renamed, Rewritten
<1>6. Left(c)'
  BY <1>1 DEF WriteFile, TypeOK, Progress, Left, Begun, NoPart, HasWhole, stores, Goto,
     Answer, Raise, Names, Contents, Events, Written, Renamed, Rewritten
<1>7. QED  BY <1>2, <1>3, <1>4, <1>5, <1>6, OwnCompile

\* The row names the file that was written.
LEMMA InsertRowInv == ASSUME Inv, NEW c \in Compiles, InsertRow(c) PROVE Inv'
<1>1. TypeOK /\ Progress(c) /\ Left(c) /\ c \in Requests /\ c \notin Others
  BY RequestsAssumption DEF Inv, Requests
<1>2. Only(c)
  BY <1>1 DEF InsertRow, TypeOK, Only, stores, Goto, Answer, Raise
<1>3. TypeOK'
  <2>1. /\ present' \in BOOLEAN
        /\ rows' \in [Compiles -> Names \cup {Nothing}]
        /\ disk' \in [Compiles -> [Names -> Contents]]
        /\ registry' \in [Compiles -> {"absent", "created", "deployed"}]
        /\ archived' \subseteq Events \X (Compiles \cup {Nothing})
    BY <1>1 DEF InsertRow, TypeOK, stores, Names, Contents, Events
  <2>2. pc' \in [Requests -> Labels] /\ code' \in [Requests -> Codes]
    BY <1>1, Moves DEF InsertRow, Labels, Codes
  <2>3. \A r \in Others : pc'[r] \in Holding => held'[r].artifact # Nothing
    BY <1>1, <1>2 DEF TypeOK, Only, Requests
  <2>4. held' \in [Others -> [artifact : Compiles \cup {Nothing}, name : Names, bytes : Contents]]
    BY <1>1, <1>2 DEF TypeOK, Only
  <2>5. QED  BY <2>1, <2>2, <2>3, <2>4 DEF TypeOK
<1>4. Grows(c)
  BY <1>1 DEF InsertRow, TypeOK, Progress, Left, Grows, Begun, NoPart, HasWhole, stores, Goto,
     Answer, Raise, Names, Contents, Written, Renamed, Rewritten
<1>5. Progress(c)'
  BY <1>1 DEF InsertRow, TypeOK, Progress, Left, NoPart, stores, Goto, Answer, Raise, Names,
     Contents, Written, Renamed, Rewritten
<1>6. Left(c)'
  BY <1>1 DEF InsertRow, TypeOK, Progress, Left, Begun, NoPart, HasWhole, stores, Goto,
     Answer, Raise, Names, Contents, Events, Written, Renamed, Rewritten
<1>7. QED  BY <1>2, <1>3, <1>4, <1>5, <1>6, OwnCompile

\* The row is there, or its session is not.
LEMMA CheckInsertedInv == ASSUME Inv, NEW c \in Compiles, CheckInserted(c) PROVE Inv'
<1>1. TypeOK /\ Progress(c) /\ Left(c) /\ c \in Requests /\ c \notin Others
  BY RequestsAssumption DEF Inv, Requests
<1>2. Only(c)
  BY <1>1 DEF CheckInserted, CheckRow, TypeOK, Only, stores, Goto, Answer, Raise
<1>3. TypeOK'
  <2>1. /\ present' \in BOOLEAN
        /\ rows' \in [Compiles -> Names \cup {Nothing}]
        /\ disk' \in [Compiles -> [Names -> Contents]]
        /\ registry' \in [Compiles -> {"absent", "created", "deployed"}]
        /\ archived' \subseteq Events \X (Compiles \cup {Nothing})
    BY <1>1 DEF CheckInserted, CheckRow, TypeOK, stores, Names, Contents, Events
  <2>2. pc' \in [Requests -> Labels] /\ code' \in [Requests -> Codes]
    BY <1>1, Moves DEF CheckInserted, CheckRow, Labels, Codes
  <2>3. \A r \in Others : pc'[r] \in Holding => held'[r].artifact # Nothing
    BY <1>1, <1>2 DEF TypeOK, Only, Requests
  <2>4. held' \in [Others -> [artifact : Compiles \cup {Nothing}, name : Names, bytes : Contents]]
    BY <1>1, <1>2 DEF TypeOK, Only
  <2>5. QED  BY <2>1, <2>2, <2>3, <2>4 DEF TypeOK
<1>4. Grows(c)
  BY <1>1 DEF CheckInserted, CheckRow, TypeOK, Progress, Left, Grows, Begun, NoPart, HasWhole, stores, Goto,
     Answer, Raise, Names, Contents, Written, Renamed, Rewritten
<1>5. Progress(c)'
  BY <1>1 DEF CheckInserted, CheckRow, TypeOK, Progress, Left, NoPart, stores, Goto, Answer, Raise, Names,
     Contents, Written, Renamed, Rewritten
<1>6. Left(c)'
  BY <1>1 DEF CheckInserted, CheckRow, TypeOK, Progress, Left, Begun, NoPart, HasWhole, stores, Goto,
     Answer, Raise, Names, Contents, Events, Written, Renamed, Rewritten
<1>7. QED  BY <1>2, <1>3, <1>4, <1>5, <1>6, OwnCompile

\* The file moves with its bytes.
LEMMA RenameInv == ASSUME Inv, NEW c \in Compiles, Rename(c) PROVE Inv'
<1>1. TypeOK /\ Progress(c) /\ Left(c) /\ c \in Requests /\ c \notin Others
  BY RequestsAssumption DEF Inv, Requests
<1>2. Only(c)
  BY <1>1 DEF Rename, TypeOK, Only, stores, Goto, Answer, Raise
<1>3. TypeOK'
  <2>1. /\ present' \in BOOLEAN
        /\ rows' \in [Compiles -> Names \cup {Nothing}]
        /\ disk' \in [Compiles -> [Names -> Contents]]
        /\ registry' \in [Compiles -> {"absent", "created", "deployed"}]
        /\ archived' \subseteq Events \X (Compiles \cup {Nothing})
    BY <1>1 DEF Rename, TypeOK, stores, Names, Contents, Events
  <2>2. pc' \in [Requests -> Labels] /\ code' \in [Requests -> Codes]
    BY <1>1, Moves DEF Rename, Labels, Codes
  <2>3. \A r \in Others : pc'[r] \in Holding => held'[r].artifact # Nothing
    BY <1>1, <1>2 DEF TypeOK, Only, Requests
  <2>4. held' \in [Others -> [artifact : Compiles \cup {Nothing}, name : Names, bytes : Contents]]
    BY <1>1, <1>2 DEF TypeOK, Only
  <2>5. QED  BY <2>1, <2>2, <2>3, <2>4 DEF TypeOK
<1>4. Grows(c)
  BY <1>1 DEF Rename, TypeOK, Progress, Left, Grows, Begun, NoPart, HasWhole, stores, Goto,
     Answer, Raise, Names, Contents, Written, Renamed, Rewritten
<1>5. Progress(c)'
  BY <1>1 DEF Rename, TypeOK, Progress, Left, NoPart, stores, Goto, Answer, Raise, Names,
     Contents, Written, Renamed, Rewritten
<1>6. Left(c)'
  BY <1>1 DEF Rename, TypeOK, Progress, Left, Begun, NoPart, HasWhole, stores, Goto,
     Answer, Raise, Names, Contents, Events, Written, Renamed, Rewritten
<1>7. QED  BY <1>2, <1>3, <1>4, <1>5, <1>6, OwnCompile

\* From here on the row has the name the file has.
LEMMA RewritePathInv == ASSUME Inv, NEW c \in Compiles, RewritePath(c) PROVE Inv'
<1>1. TypeOK /\ Progress(c) /\ Left(c) /\ c \in Requests /\ c \notin Others
  BY RequestsAssumption DEF Inv, Requests
<1>2. Only(c)
  BY <1>1 DEF RewritePath, TypeOK, Only, stores, Goto, Answer, Raise
<1>3. TypeOK'
  <2>1. /\ present' \in BOOLEAN
        /\ rows' \in [Compiles -> Names \cup {Nothing}]
        /\ disk' \in [Compiles -> [Names -> Contents]]
        /\ registry' \in [Compiles -> {"absent", "created", "deployed"}]
        /\ archived' \subseteq Events \X (Compiles \cup {Nothing})
    BY <1>1 DEF RewritePath, TypeOK, stores, Names, Contents, Events
  <2>2. pc' \in [Requests -> Labels] /\ code' \in [Requests -> Codes]
    BY <1>1, Moves DEF RewritePath, Labels, Codes
  <2>3. \A r \in Others : pc'[r] \in Holding => held'[r].artifact # Nothing
    BY <1>1, <1>2 DEF TypeOK, Only, Requests
  <2>4. held' \in [Others -> [artifact : Compiles \cup {Nothing}, name : Names, bytes : Contents]]
    BY <1>1, <1>2 DEF TypeOK, Only
  <2>5. QED  BY <2>1, <2>2, <2>3, <2>4 DEF TypeOK
<1>4. Grows(c)
  <2>1. UNCHANGED <<disk, registry>>  BY DEF RewritePath
  <2>2. pc'[c] \in {"reread", "done"}  BY <1>1 DEF RewritePath, TypeOK, Goto, Answer, Raise
  <2>3. QED  BY <2>1, <2>2 DEF Grows, Begun, NoPart, HasWhole
<1>5. Progress(c)'
  <2>1. pc[c] = "rewrite" /\ UNCHANGED <<present, disk>>  BY DEF RewritePath
  <2>2. (pc'[c] = "done" /\ rows' = rows) \/ pc'[c] = "reread"
    BY <1>1, Alone DEF RewritePath
  <2>3. CASE pc'[c] = "done" /\ rows' = rows
    BY <1>1, <2>1, <2>3 DEF Progress, NoPart, Written, Renamed, Rewritten
  <2>4. CASE pc'[c] = "reread"
    <3>1. rows'[c] = IF rows[c] = Nothing THEN Nothing ELSE "final"
      BY <1>1, <2>4, Alone DEF RewritePath, TypeOK
    <3>2. present => rows[c] = "temporary"  BY <1>1, <2>1 DEF Progress
    <3>3. disk[c]["final"] = "whole" /\ disk[c]["temporary"] = "absent"
      BY <1>1, <2>1 DEF Progress, Renamed
    <3>4. QED
      BY <2>1, <2>4, <3>1, <3>2, <3>3, RequestsAssumption
         DEF Progress, NoPart, Written, Renamed, Rewritten, Names
  <2>5. QED  BY <2>2, <2>3, <2>4
<1>6. Left(c)'
  BY <1>1 DEF RewritePath, TypeOK, Progress, Left, Begun, NoPart, HasWhole, stores, Goto,
     Answer, Raise, Names, Contents, Events, Written, Renamed, Rewritten
<1>7. QED  BY <1>2, <1>3, <1>4, <1>5, <1>6, OwnCompile

\* As CheckInserted, with the final name.
LEMMA CheckRewrittenInv == ASSUME Inv, NEW c \in Compiles, CheckRewritten(c) PROVE Inv'
<1>1. TypeOK /\ Progress(c) /\ Left(c) /\ c \in Requests /\ c \notin Others
  BY RequestsAssumption DEF Inv, Requests
<1>2. Only(c)
  BY <1>1 DEF CheckRewritten, CheckRow, TypeOK, Only, stores, Goto, Answer, Raise
<1>3. TypeOK'
  <2>1. /\ present' \in BOOLEAN
        /\ rows' \in [Compiles -> Names \cup {Nothing}]
        /\ disk' \in [Compiles -> [Names -> Contents]]
        /\ registry' \in [Compiles -> {"absent", "created", "deployed"}]
        /\ archived' \subseteq Events \X (Compiles \cup {Nothing})
    BY <1>1 DEF CheckRewritten, CheckRow, TypeOK, stores, Names, Contents, Events
  <2>2. pc' \in [Requests -> Labels] /\ code' \in [Requests -> Codes]
    BY <1>1, Moves DEF CheckRewritten, CheckRow, Labels, Codes
  <2>3. \A r \in Others : pc'[r] \in Holding => held'[r].artifact # Nothing
    BY <1>1, <1>2 DEF TypeOK, Only, Requests
  <2>4. held' \in [Others -> [artifact : Compiles \cup {Nothing}, name : Names, bytes : Contents]]
    BY <1>1, <1>2 DEF TypeOK, Only
  <2>5. QED  BY <2>1, <2>2, <2>3, <2>4 DEF TypeOK
<1>4. Grows(c)
  BY <1>1 DEF CheckRewritten, CheckRow, TypeOK, Progress, Left, Grows, Begun, NoPart, HasWhole, stores, Goto,
     Answer, Raise, Names, Contents, Written, Renamed, Rewritten
<1>5. Progress(c)'
  BY <1>1 DEF CheckRewritten, CheckRow, TypeOK, Progress, Left, NoPart, stores, Goto, Answer, Raise, Names,
     Contents, Written, Renamed, Rewritten
<1>6. Left(c)'
  BY <1>1 DEF CheckRewritten, CheckRow, TypeOK, Progress, Left, Begun, NoPart, HasWhole, stores, Goto,
     Answer, Raise, Names, Contents, Events, Written, Renamed, Rewritten
<1>7. QED  BY <1>2, <1>3, <1>4, <1>5, <1>6, OwnCompile

\* The entry is made when file and row are final.
LEMMA RegisterInv == ASSUME Inv, NEW c \in Compiles, Register(c) PROVE Inv'
<1>1. TypeOK /\ Progress(c) /\ Left(c) /\ c \in Requests /\ c \notin Others
  BY RequestsAssumption DEF Inv, Requests
<1>2. Only(c)
  BY <1>1 DEF Register, TypeOK, Only, stores, Goto, Answer, Raise
<1>3. TypeOK'
  <2>1. /\ present' \in BOOLEAN
        /\ rows' \in [Compiles -> Names \cup {Nothing}]
        /\ disk' \in [Compiles -> [Names -> Contents]]
        /\ registry' \in [Compiles -> {"absent", "created", "deployed"}]
        /\ archived' \subseteq Events \X (Compiles \cup {Nothing})
    BY <1>1 DEF Register, TypeOK, stores, Names, Contents, Events
  <2>2. pc' \in [Requests -> Labels] /\ code' \in [Requests -> Codes]
    BY <1>1, Moves DEF Register, Labels, Codes
  <2>3. \A r \in Others : pc'[r] \in Holding => held'[r].artifact # Nothing
    BY <1>1, <1>2 DEF TypeOK, Only, Requests
  <2>4. held' \in [Others -> [artifact : Compiles \cup {Nothing}, name : Names, bytes : Contents]]
    BY <1>1, <1>2 DEF TypeOK, Only
  <2>5. QED  BY <2>1, <2>2, <2>3, <2>4 DEF TypeOK
<1>4. Grows(c)
  BY <1>1 DEF Register, TypeOK, Progress, Left, Grows, Begun, NoPart, HasWhole, stores, Goto,
     Answer, Raise, Names, Contents, Written, Renamed, Rewritten
<1>5. Progress(c)'
  BY <1>1 DEF Register, TypeOK, Progress, Left, NoPart, stores, Goto, Answer, Raise, Names,
     Contents, Written, Renamed, Rewritten
<1>6. Left(c)'
  BY <1>1 DEF Register, TypeOK, Progress, Left, Begun, NoPart, HasWhole, stores, Goto,
     Answer, Raise, Names, Contents, Events, Written, Renamed, Rewritten
<1>7. QED  BY <1>2, <1>3, <1>4, <1>5, <1>6, OwnCompile

\* The event is appended when the entry is there.
LEMMA ArchiveCompileInv == ASSUME Inv, NEW c \in Compiles, ArchiveCompile(c) PROVE Inv'
<1>1. TypeOK /\ Progress(c) /\ Left(c) /\ c \in Requests /\ c \notin Others
  BY RequestsAssumption DEF Inv, Requests
<1>2. Only(c)
  BY <1>1 DEF ArchiveCompile, LogThenAnswer, TypeOK, Only, stores, Goto, Answer, Raise
<1>3. TypeOK'
  <2>1. /\ present' \in BOOLEAN
        /\ rows' \in [Compiles -> Names \cup {Nothing}]
        /\ disk' \in [Compiles -> [Names -> Contents]]
        /\ registry' \in [Compiles -> {"absent", "created", "deployed"}]
        /\ archived' \subseteq Events \X (Compiles \cup {Nothing})
    BY <1>1 DEF ArchiveCompile, LogThenAnswer, TypeOK, stores, Names, Contents, Events
  <2>2. pc' \in [Requests -> Labels] /\ code' \in [Requests -> Codes]
    BY <1>1, Moves DEF ArchiveCompile, LogThenAnswer, Labels, Codes
  <2>3. \A r \in Others : pc'[r] \in Holding => held'[r].artifact # Nothing
    BY <1>1, <1>2 DEF TypeOK, Only, Requests
  <2>4. held' \in [Others -> [artifact : Compiles \cup {Nothing}, name : Names, bytes : Contents]]
    BY <1>1, <1>2 DEF TypeOK, Only
  <2>5. QED  BY <2>1, <2>2, <2>3, <2>4 DEF TypeOK
<1>4. Grows(c)
  BY <1>1 DEF ArchiveCompile, LogThenAnswer, TypeOK, Progress, Left, Grows, Begun, NoPart, HasWhole, stores, Goto,
     Answer, Raise, Names, Contents, Written, Renamed, Rewritten
<1>5. Progress(c)'
  BY <1>1 DEF ArchiveCompile, LogThenAnswer, TypeOK, Progress, Left, NoPart, stores, Goto, Answer, Raise, Names,
     Contents, Written, Renamed, Rewritten
<1>6. Left(c)'
  BY <1>1 DEF ArchiveCompile, LogThenAnswer, TypeOK, Progress, Left, Begun, NoPart, HasWhole, stores, Goto,
     Answer, Raise, Names, Contents, Events, Written, Renamed, Rewritten
<1>7. QED  BY <1>2, <1>3, <1>4, <1>5, <1>6, OwnCompile

-----------------------------------------------------------------------------
(* A step of another request. *)

\* It leaves the files and the compiles alone; it marks what is registered as
\* deployed, deletes all rows with the session, and archives what there is.
Quiet(r) ==
    /\ UNCHANGED disk
    /\ \A q \in Requests \ {r} : pc'[q] = pc[q] /\ code'[q] = code[q]
    /\ \A q \in Others \ {r} : held'[q] = held[q]
    /\ \A c \in Compiles : \/ registry'[c] = registry[c]
                           \/ registry[c] # "absent" /\ registry'[c] = "deployed"
    /\ \/ UNCHANGED <<present, rows>>
       \/ ~present' /\ \A c \in Compiles : rows'[c] = Nothing
    /\ archived \subseteq archived'
    /\ \A c \in Compiles :
         /\ <<"compile.produced", c>> \in archived' => <<"compile.produced", c>> \in archived
         /\ <<"registry.deployed", c>> \in archived' =>
              <<"registry.deployed", c>> \in archived \/ registry[c] = "deployed"
         /\ <<"artifact.downloaded", c>> \in archived' =>
              <<"artifact.downloaded", c>> \in archived \/ (Begun(c) /\ HasWhole(c))

LEMMA OtherRequest ==
    ASSUME Inv, NEW r \in Others, Quiet(r), TypeOK', Reader(r)'
    PROVE  Inv'
<1>1. \A c \in Compiles : c \in Requests \ {r}
  BY RequestsAssumption DEF Requests
<1>2. \A c \in Compiles : Progress(c)'
  <2> SUFFICES ASSUME NEW c \in Compiles  PROVE Progress(c)'
    OBVIOUS
  <2>1. pc'[c] = pc[c] /\ disk' = disk  BY <1>1 DEF Quiet
  <2>2. Progress(c)  BY DEF Inv
  <2>3. CASE UNCHANGED <<present, rows>>  BY <2>1, <2>2, <2>3 DEF Progress, NoPart
  <2>4. CASE ~present' /\ rows'[c] = Nothing
    BY <2>1, <2>2, <2>4, RequestsAssumption DEF Progress, NoPart, Names, Inv, TypeOK
  <2>5. QED  BY <2>3, <2>4 DEF Quiet
<1>3. \A c \in Compiles : Left(c)'
  <2> SUFFICES ASSUME NEW c \in Compiles  PROVE Left(c)'
    OBVIOUS
  <2>1. pc'[c] = pc[c] /\ code'[c] = code[c] /\ disk' = disk  BY <1>1 DEF Quiet
  <2>2. Left(c)  BY DEF Inv
  <2>3. registry[c] = "deployed" => registry'[c] = "deployed"  BY DEF Quiet
  <2>4. registry[c] # "absent" <=> registry'[c] # "absent"  BY DEF Quiet
  <2>5. \/ rows'[c] # "temporary" /\ (present' => rows'[c] = "final")
        \/ registry[c] = "absent"
    BY <2>2, RequestsAssumption DEF Left, Quiet, Names
  <2>6. QED  BY <2>1, <2>2, <2>3, <2>4, <2>5 DEF Left, Quiet, Begun, HasWhole
<1>4. \A q \in Others \ {r} : Reader(q)'
  <2> SUFFICES ASSUME NEW q \in Others \ {r}  PROVE Reader(q)'
    OBVIOUS
  <2>1. Reader(q) /\ pc'[q] = pc[q] /\ held'[q] = held[q] /\ disk' = disk
    BY DEF Inv, Quiet, Requests
  <2>2. pc[q] \in Holding => held[q].artifact \in Compiles
    BY DEF Inv, TypeOK
  <2>3. CASE pc[q] \notin Holding  BY <2>1, <2>3 DEF Reader, Holding
  <2>4. CASE pc[q] \in Holding
    <3> DEFINE a == held[q].artifact
    <3>1. a \in Compiles  BY <2>2, <2>4
    <3>2. pc'[a] = pc[a] /\ (registry[a] = "deployed" => registry'[a] = "deployed")
      BY <3>1, <1>1 DEF Quiet
    <3>3. QED  BY <2>1, <3>2 DEF Reader, Begun, NoPart, HasWhole
  <2>5. QED  BY <2>3, <2>4
<1>5. QED  BY <1>2, <1>3, <1>4 DEF Inv

\* The row that was found names a file that is whole, or has been.
LEMMA ReceiveDownloadInv == ASSUME Inv, NEW r \in Others, NEW a \in Compiles, ReceiveDownload(r, a) PROVE Inv'
<1>1. TypeOK /\ Reader(r) /\ r \in Requests /\ (\A c \in Compiles : Progress(c) /\ Left(c))
  BY RequestsAssumption DEF Inv, Requests
<1>2. TypeOK'
  <2>1. /\ present' \in BOOLEAN
        /\ rows' \in [Compiles -> Names \cup {Nothing}]
        /\ disk' \in [Compiles -> [Names -> Contents]]
        /\ registry' \in [Compiles -> {"absent", "created", "deployed"}]
    BY <1>1 DEF ReceiveDownload, TypeOK, stores
  <2>2. archived' \subseteq Events \X (Compiles \cup {Nothing})
    BY <1>1 DEF ReceiveDownload, TypeOK, stores, Events
  <2>3. pc' \in [Requests -> Labels] /\ code' \in [Requests -> Codes]
    BY <1>1, Moves DEF ReceiveDownload, Labels, Codes
  <2>4. held' \in [Others -> [artifact : Compiles \cup {Nothing}, name : Names, bytes : Contents]]
    BY <1>1 DEF ReceiveDownload, TypeOK, stores
  <2>5. \A q \in Others : pc'[q] \in Holding => held'[q].artifact # Nothing
    BY <1>1, RequestsAssumption
       DEF ReceiveDownload, TypeOK, stores, Goto, Answer, Raise, Holding, Requests
  <2>6. QED  BY <2>1, <2>2, <2>3, <2>4, <2>5 DEF TypeOK
<1>3. Quiet(r)
  <2>1. UNCHANGED stores /\ Same(r)  BY <1>1, Alone DEF ReceiveDownload
  <2>2. \A q \in Others \ {r} : held'[q] = held[q]  BY <1>1 DEF ReceiveDownload, TypeOK
  <2>3. QED  BY <2>1, <2>2 DEF Quiet, Same, stores
<1>4. Reader(r)'
  <2>1. CASE rows[a] = Nothing
    <3>1. pc'[r] = "done" /\ held' = held  BY <1>1, <2>1, Alone DEF ReceiveDownload
    <3>2. QED  BY <1>1, <3>1 DEF Reader
  <2>2. CASE rows[a] # Nothing
    <3>1. pc'[r] = "read" /\ disk' = disk  BY <1>1, <2>2, Alone DEF ReceiveDownload, stores
    <3>2. held'[r].artifact = a /\ held'[r].bytes = held[r].bytes
      BY <1>1, <2>2 DEF ReceiveDownload, TypeOK
    <3>3. Begun(a) /\ NoPart(a)  BY <1>1, <2>2 DEF Progress, Begun
    <3>4. pc'[a] = pc[a]
      BY <1>1, <2>2, Alone, RequestsAssumption DEF ReceiveDownload, Same, Requests
    <3>5. QED  BY <1>1, <3>1, <3>2, <3>3, <3>4 DEF Reader, Begun, NoPart
  <2>3. QED  BY <2>1, <2>2
<1>5. QED  BY <1>2, <1>3, <1>4, OtherRequest

\* What is read from a file that is never cut short is whole.
LEMMA ReadFileInv == ASSUME Inv, NEW r \in Others, ReadFile(r) PROVE Inv'
<1>1. TypeOK /\ Reader(r) /\ r \in Requests /\ (\A c \in Compiles : Progress(c) /\ Left(c))
  BY RequestsAssumption DEF Inv, Requests
<1>2. TypeOK'
  <2>1. /\ present' \in BOOLEAN
        /\ rows' \in [Compiles -> Names \cup {Nothing}]
        /\ disk' \in [Compiles -> [Names -> Contents]]
        /\ registry' \in [Compiles -> {"absent", "created", "deployed"}]
    BY <1>1 DEF ReadFile, TypeOK, stores
  <2>2. archived' \subseteq Events \X (Compiles \cup {Nothing})
    BY <1>1 DEF ReadFile, TypeOK, stores, Events
  <2>3. pc' \in [Requests -> Labels] /\ code' \in [Requests -> Codes]
    BY <1>1, Moves DEF ReadFile, Labels, Codes
  <2>4. held' \in [Others -> [artifact : Compiles \cup {Nothing}, name : Names, bytes : Contents]]
    <3>1. pc[r] = "read"  BY DEF ReadFile
    <3>2. held[r].artifact \in Compiles /\ held[r].name \in Names
      BY <1>1, <3>1 DEF TypeOK, Holding
    <3>3. disk[held[r].artifact][held[r].name] \in Contents  BY <1>1, <3>2 DEF TypeOK
    <3>4. QED  BY <1>1, <3>3 DEF ReadFile, TypeOK
  <2>5. \A q \in Others : pc'[q] \in Holding => held'[q].artifact # Nothing
    BY <1>1, RequestsAssumption
       DEF ReadFile, TypeOK, stores, Goto, Answer, Raise, Holding, Requests
  <2>6. QED  BY <2>1, <2>2, <2>3, <2>4, <2>5 DEF TypeOK
<1>3. Quiet(r)
  <2>1. UNCHANGED stores /\ Same(r)  BY <1>1, Alone DEF ReadFile
  <2>2. \A q \in Others \ {r} : held'[q] = held[q]  BY <1>1 DEF ReadFile, TypeOK
  <2>3. QED  BY <2>1, <2>2 DEF Quiet, Same, stores
<1>4. Reader(r)'
  <2> DEFINE a == held[r].artifact
             bytes == disk[a][held[r].name]
  <2>1. CASE bytes = "absent"
    <3>1. pc'[r] = "done" /\ held' = held  BY <1>1, <2>1, Alone DEF ReadFile
    <3>2. QED  BY <1>1, <3>1 DEF Reader
  <2>2. CASE bytes # "absent"
    <3>1. pc[r] = "read" /\ pc'[r] = "mark" /\ disk' = disk
      BY <1>1, <2>2, Alone DEF ReadFile, stores
    <3>2. held'[r].artifact = a /\ held'[r].bytes = bytes
      BY <1>1, <2>2 DEF ReadFile, TypeOK
    <3>3. a \in Compiles /\ held[r].name \in Names
      BY <1>1, <3>1 DEF TypeOK, Holding
    <3>4. Begun(a) /\ NoPart(a)  BY <1>1, <3>1 DEF Reader
    <3>5. bytes = "whole"
      BY <1>1, <2>2, <3>3, <3>4 DEF NoPart, TypeOK, Contents
    <3>6. pc'[a] = pc[a]
      BY <1>1, <2>2, <3>3, Alone, RequestsAssumption DEF ReadFile, Same, Requests
    <3>7. HasWhole(a)  BY <3>3, <3>5 DEF HasWhole
    <3>8. QED  BY <3>1, <3>2, <3>4, <3>5, <3>6, <3>7 DEF Reader, Begun, HasWhole
  <2>3. QED  BY <2>1, <2>2
<1>5. QED  BY <1>2, <1>3, <1>4, OtherRequest

\* The session's row is no part of this module's state.
LEMMA MarkDownloadedInv == ASSUME Inv, NEW r \in Others, MarkDownloaded(r) PROVE Inv'
<1>1. TypeOK /\ Reader(r) /\ r \in Requests /\ (\A c \in Compiles : Progress(c) /\ Left(c))
  BY RequestsAssumption DEF Inv, Requests
<1>2. TypeOK'
  <2>1. /\ present' \in BOOLEAN
        /\ rows' \in [Compiles -> Names \cup {Nothing}]
        /\ disk' \in [Compiles -> [Names -> Contents]]
        /\ registry' \in [Compiles -> {"absent", "created", "deployed"}]
    BY <1>1 DEF MarkDownloaded, TypeOK, stores
  <2>2. archived' \subseteq Events \X (Compiles \cup {Nothing})
    BY <1>1 DEF MarkDownloaded, TypeOK, stores, Events
  <2>3. pc' \in [Requests -> Labels] /\ code' \in [Requests -> Codes]
    BY <1>1, Moves DEF MarkDownloaded, Labels, Codes
  <2>4. held' \in [Others -> [artifact : Compiles \cup {Nothing}, name : Names, bytes : Contents]]
    BY <1>1 DEF MarkDownloaded, TypeOK, stores
  <2>5. \A q \in Others : pc'[q] \in Holding => held'[q].artifact # Nothing
    BY <1>1, RequestsAssumption
       DEF MarkDownloaded, TypeOK, stores, Goto, Answer, Raise, Holding, Requests
  <2>6. QED  BY <2>1, <2>2, <2>3, <2>4, <2>5 DEF TypeOK
<1>3. Quiet(r)
  <2>1. UNCHANGED <<stores, held>> /\ Same(r)  BY <1>1, Alone DEF MarkDownloaded
  <2>2. QED  BY <2>1 DEF Quiet, Same, stores
<1>4. Reader(r)'
  <2>1. pc[r] = "mark" /\ pc'[r] \in {"downloaded", "done"} /\ UNCHANGED <<stores, held>>
    BY <1>1, Alone DEF MarkDownloaded
  <2>2. held[r].artifact \in Compiles  BY <1>1, <2>1 DEF TypeOK, Holding
  <2>3. pc'[held[r].artifact] = pc[held[r].artifact]
    BY <1>1, <2>2, Alone, RequestsAssumption DEF MarkDownloaded, Same, Requests
  <2>4. QED  BY <1>1, <2>1, <2>3 DEF Reader, Begun, HasWhole, stores
<1>5. QED  BY <1>2, <1>3, <1>4, OtherRequest

\* What was read is still there under one of its names.
LEMMA ArchiveDownloadInv == ASSUME Inv, NEW r \in Others, ArchiveDownload(r) PROVE Inv'
<1>1. TypeOK /\ Reader(r) /\ r \in Requests /\ (\A c \in Compiles : Progress(c) /\ Left(c))
  BY RequestsAssumption DEF Inv, Requests
<1>2. TypeOK'
  <2>1. /\ present' \in BOOLEAN
        /\ rows' \in [Compiles -> Names \cup {Nothing}]
        /\ disk' \in [Compiles -> [Names -> Contents]]
        /\ registry' \in [Compiles -> {"absent", "created", "deployed"}]
    BY <1>1 DEF ArchiveDownload, LogThenAnswer, TypeOK, stores
  <2>2. archived' \subseteq Events \X (Compiles \cup {Nothing})
    BY <1>1 DEF ArchiveDownload, LogThenAnswer, TypeOK, stores, Events
  <2>3. pc' \in [Requests -> Labels] /\ code' \in [Requests -> Codes]
    BY <1>1, Moves DEF ArchiveDownload, LogThenAnswer, Labels, Codes
  <2>4. held' \in [Others -> [artifact : Compiles \cup {Nothing}, name : Names, bytes : Contents]]
    BY <1>1 DEF ArchiveDownload, LogThenAnswer, TypeOK, stores
  <2>5. \A q \in Others : pc'[q] \in Holding => held'[q].artifact # Nothing
    BY <1>1, RequestsAssumption
       DEF ArchiveDownload, LogThenAnswer, TypeOK, stores, Goto, Answer, Raise, Holding, Requests
  <2>6. QED  BY <2>1, <2>2, <2>3, <2>4, <2>5 DEF TypeOK
<1>3. Quiet(r)
  <2>1. /\ pc[r] = "downloaded" /\ Same(r) /\ UNCHANGED <<present, rows, disk, registry, held>>
        /\ archived' \in {archived, archived \cup {<<"artifact.downloaded", held[r].artifact>>}}
    BY <1>1, Alone DEF ArchiveDownload, LogThenAnswer
  <2>2. Begun(held[r].artifact) /\ HasWhole(held[r].artifact)  BY <1>1, <2>1 DEF Reader
  <2>3. QED  BY <2>1, <2>2 DEF Quiet, Same
<1>4. Reader(r)'
  <2>1. pc'[r] = "done" /\ held' = held  BY <1>1, Alone DEF ArchiveDownload, LogThenAnswer
  <2>2. QED  BY <1>1, <2>1 DEF Reader
<1>5. QED  BY <1>2, <1>3, <1>4, OtherRequest

\* Only what is registered is marked.
LEMMA MarkDeployedInv == ASSUME Inv, NEW r \in Others, NEW a \in Compiles, MarkDeployed(r, a) PROVE Inv'
<1>1. TypeOK /\ Reader(r) /\ r \in Requests /\ (\A c \in Compiles : Progress(c) /\ Left(c))
  BY RequestsAssumption DEF Inv, Requests
<1>2. TypeOK'
  <2>1. /\ present' \in BOOLEAN
        /\ rows' \in [Compiles -> Names \cup {Nothing}]
        /\ disk' \in [Compiles -> [Names -> Contents]]
        /\ registry' \in [Compiles -> {"absent", "created", "deployed"}]
    BY <1>1 DEF MarkDeployed, TypeOK, stores
  <2>2. archived' \subseteq Events \X (Compiles \cup {Nothing})
    BY <1>1 DEF MarkDeployed, TypeOK, stores, Events
  <2>3. pc' \in [Requests -> Labels] /\ code' \in [Requests -> Codes]
    BY <1>1, Moves DEF MarkDeployed, Labels, Codes
  <2>4. held' \in [Others -> [artifact : Compiles \cup {Nothing}, name : Names, bytes : Contents]]
    BY <1>1 DEF MarkDeployed, TypeOK, stores
  <2>5. \A q \in Others : pc'[q] \in Holding => held'[q].artifact # Nothing
    BY <1>1, RequestsAssumption
       DEF MarkDeployed, TypeOK, stores, Goto, Answer, Raise, Holding, Requests
  <2>6. QED  BY <2>1, <2>2, <2>3, <2>4, <2>5 DEF TypeOK
<1>3. Quiet(r)
  <2>1. UNCHANGED <<present, rows, disk, archived>> /\ Same(r)  BY <1>1, Alone DEF MarkDeployed
  <2>2. \A q \in Others \ {r} : held'[q] = held[q]  BY <1>1 DEF MarkDeployed, TypeOK
  <2>3. \A c \in Compiles : \/ registry'[c] = registry[c]
                            \/ registry[c] # "absent" /\ registry'[c] = "deployed"
    BY <1>1 DEF MarkDeployed, TypeOK
  <2>4. QED  BY <2>1, <2>2, <2>3 DEF Quiet, Same
<1>4. Reader(r)'
  <2>1. CASE pc'[r] = "done" /\ held' = held  BY <1>1, <2>1 DEF Reader
  <2>2. CASE /\ registry' = [registry EXCEPT ![a] = "deployed"]
             /\ held' = [held EXCEPT ![r].artifact = a]
             /\ pc'[r] = "deployed"
    <3>1. held'[r].artifact = a /\ held'[r].bytes = held[r].bytes /\ registry'[a] = "deployed"
      BY <1>1, <2>2 DEF TypeOK
    <3>2. QED  BY <1>1, <2>2, <3>1 DEF Reader
  <2>3. QED  BY <1>1, <2>1, <2>2, Alone DEF MarkDeployed
<1>5. QED  BY <1>2, <1>3, <1>4, OtherRequest

\* A deployment that was marked stays marked.
LEMMA ArchiveDeployedInv == ASSUME Inv, NEW r \in Others, ArchiveDeployed(r) PROVE Inv'
<1>1. TypeOK /\ Reader(r) /\ r \in Requests /\ (\A c \in Compiles : Progress(c) /\ Left(c))
  BY RequestsAssumption DEF Inv, Requests
<1>2. TypeOK'
  <2>1. /\ present' \in BOOLEAN
        /\ rows' \in [Compiles -> Names \cup {Nothing}]
        /\ disk' \in [Compiles -> [Names -> Contents]]
        /\ registry' \in [Compiles -> {"absent", "created", "deployed"}]
    BY <1>1 DEF ArchiveDeployed, LogThenAnswer, TypeOK, stores
  <2>2. archived' \subseteq Events \X (Compiles \cup {Nothing})
    BY <1>1 DEF ArchiveDeployed, LogThenAnswer, TypeOK, stores, Events
  <2>3. pc' \in [Requests -> Labels] /\ code' \in [Requests -> Codes]
    BY <1>1, Moves DEF ArchiveDeployed, LogThenAnswer, Labels, Codes
  <2>4. held' \in [Others -> [artifact : Compiles \cup {Nothing}, name : Names, bytes : Contents]]
    BY <1>1 DEF ArchiveDeployed, LogThenAnswer, TypeOK, stores
  <2>5. \A q \in Others : pc'[q] \in Holding => held'[q].artifact # Nothing
    BY <1>1, RequestsAssumption
       DEF ArchiveDeployed, LogThenAnswer, TypeOK, stores, Goto, Answer, Raise, Holding, Requests
  <2>6. QED  BY <2>1, <2>2, <2>3, <2>4, <2>5 DEF TypeOK
<1>3. Quiet(r)
  <2>1. /\ pc[r] = "deployed" /\ Same(r) /\ UNCHANGED <<present, rows, disk, registry, held>>
        /\ archived' \in {archived, archived \cup {<<"registry.deployed", held[r].artifact>>}}
    BY <1>1, Alone DEF ArchiveDeployed, LogThenAnswer
  <2>2. registry[held[r].artifact] = "deployed"  BY <1>1, <2>1 DEF Reader
  <2>3. QED  BY <2>1, <2>2 DEF Quiet, Same
<1>4. Reader(r)'
  <2>1. pc'[r] = "done" /\ held' = held  BY <1>1, Alone DEF ArchiveDeployed, LogThenAnswer
  <2>2. QED  BY <1>1, <2>1 DEF Reader
<1>5. QED  BY <1>2, <1>3, <1>4, OtherRequest

\* The rows go with the session, all at once.
LEMMA DeleteInv == ASSUME Inv, NEW r \in Others, Delete(r) PROVE Inv'
<1>1. TypeOK /\ Reader(r) /\ r \in Requests /\ (\A c \in Compiles : Progress(c) /\ Left(c))
  BY RequestsAssumption DEF Inv, Requests
<1>2. TypeOK'
  <2>1. /\ present' \in BOOLEAN
        /\ rows' \in [Compiles -> Names \cup {Nothing}]
        /\ disk' \in [Compiles -> [Names -> Contents]]
        /\ registry' \in [Compiles -> {"absent", "created", "deployed"}]
    BY <1>1 DEF Delete, DeleteRows, LogThenAnswer, TypeOK, stores
  <2>2. archived' \subseteq Events \X (Compiles \cup {Nothing})
    BY <1>1 DEF Delete, DeleteRows, LogThenAnswer, TypeOK, stores, Events
  <2>3. pc' \in [Requests -> Labels] /\ code' \in [Requests -> Codes]
    BY <1>1, Moves DEF Delete, DeleteRows, LogThenAnswer, Labels, Codes
  <2>4. held' \in [Others -> [artifact : Compiles \cup {Nothing}, name : Names, bytes : Contents]]
    BY <1>1 DEF Delete, DeleteRows, LogThenAnswer, TypeOK, stores
  <2>5. \A q \in Others : pc'[q] \in Holding => held'[q].artifact # Nothing
    BY <1>1, RequestsAssumption
       DEF Delete, DeleteRows, LogThenAnswer, TypeOK, stores, Goto, Answer, Raise, Holding, Requests
  <2>6. QED  BY <2>1, <2>2, <2>3, <2>4, <2>5 DEF TypeOK
<1>3. Quiet(r)
  <2>1. CASE DeleteRows(r)
    <3>1. UNCHANGED <<disk, registry, archived, held>> /\ Same(r)
      BY <1>1, <2>1, Alone DEF DeleteRows
    <3>2. \/ UNCHANGED <<present, rows>>
          \/ ~present' /\ \A c \in Compiles : rows'[c] = Nothing
      BY <2>1 DEF DeleteRows
    <3>3. QED  BY <3>1, <3>2 DEF Quiet, Same
  <2>2. CASE ~DeleteRows(r)
    <3>1. /\ Same(r) /\ UNCHANGED <<present, rows, disk, registry, held>>
          /\ archived' \in {archived, archived \cup {<<"session.deleted", Nothing>>}}
      BY <1>1, <2>2, Alone DEF Delete, LogThenAnswer
    <3>2. QED  BY <3>1 DEF Quiet, Same
  <2>3. QED  BY <2>1, <2>2
<1>4. Reader(r)'
  <2>1. pc'[r] \in {"deleted", "done"} /\ held' = held
    BY <1>1, Alone DEF Delete, DeleteRows, LogThenAnswer
  <2>2. QED  BY <1>1, <2>1 DEF Reader
<1>5. QED  BY <1>2, <1>3, <1>4, OtherRequest


-----------------------------------------------------------------------------
(* The process stops, and the theorems. *)

\* Nothing that was left depends on its handler going on.
LEMMA CrashInv == ASSUME Inv, Crash PROVE Inv'
<1>1. TypeOK /\ UNCHANGED <<stores, held, code>> /\ pc' \in [Requests -> Labels]
  BY DEF Inv, TypeOK, Crash, Labels
<1>2. \A r \in Requests : \/ pc'[r] = pc[r]
                          \/ pc[r] \notin {"idle", "done"} /\ pc'[r] = "done"
  BY DEF Crash, InFlight
<1>3. TypeOK'
  BY <1>1, <1>2 DEF TypeOK, stores, Holding, Requests
<1>4. \A c \in Compiles : Progress(c)' /\ Left(c)'
  <2> SUFFICES ASSUME NEW c \in Compiles  PROVE Progress(c)' /\ Left(c)'
    OBVIOUS
  <2>1. Progress(c) /\ Left(c) /\ (\/ pc'[c] = pc[c]
                                   \/ pc[c] \notin {"idle", "done"} /\ pc'[c] = "done")
    BY <1>2 DEF Inv, Requests
  <2>2. Progress(c)'  BY <1>1, <2>1 DEF Progress, stores, NoPart, Written, Renamed, Rewritten
  <2>3. Left(c)'  BY <1>1, <2>1 DEF Left, stores, Begun, HasWhole
  <2>4. QED  BY <2>2, <2>3
<1>5. \A r \in Others : Reader(r)'
  <2> SUFFICES ASSUME NEW r \in Others  PROVE Reader(r)'
    OBVIOUS
  <2>1. Reader(r) /\ (pc'[r] = pc[r] \/ pc'[r] = "done")  BY <1>2 DEF Inv, Requests
  <2>2. CASE pc'[r] = "done"  BY <1>1, <2>1, <2>2 DEF Reader
  <2>3. CASE pc'[r] = pc[r] /\ pc[r] \notin Holding
    BY <1>1, <2>1, <2>3 DEF Reader, Holding
  <2>4. CASE pc'[r] = pc[r] /\ pc[r] \in Holding
    <3> DEFINE a == held[r].artifact
    <3>1. a \in Compiles  BY <1>1, <2>4 DEF TypeOK
    <3>2. Begun(a) => Begun(a)'
      <4>1. pc'[a] = pc[a] \/ pc'[a] = "done"  BY <1>2, <3>1 DEF Requests
      <4>2. QED  BY <1>1, <4>1 DEF Begun
    <3>3. /\ held' = held /\ registry' = registry
          /\ NoPart(a) => NoPart(a)'
          /\ HasWhole(a) => HasWhole(a)'
      BY <1>1 DEF stores, NoPart, HasWhole
    <3>4. QED  BY <2>1, <2>4, <3>2, <3>3 DEF Reader
  <2>5. QED  BY <2>1, <2>2, <2>3, <2>4
<1>6. QED  BY <1>3, <1>4, <1>5 DEF Inv

\* Every step keeps the invariant.
LEMMA NextInv == ASSUME Inv, [Next]_vars PROVE Inv'
<1>1. ASSUME NEW c \in Compiles, Compile(c)  PROVE Inv'
  BY <1>1, ReceiveCompileInv, WriteFileInv, InsertRowInv, CheckInsertedInv, RenameInv,
     RewritePathInv, CheckRewrittenInv, RegisterInv, ArchiveCompileInv DEF Compile
<1>2. ASSUME NEW r \in Others, Download(r)  PROVE Inv'
  BY <1>2, ReceiveDownloadInv, ReadFileInv, MarkDownloadedInv, ArchiveDownloadInv DEF Download
<1>3. ASSUME NEW r \in Others, Deploy(r)  PROVE Inv'
  BY <1>3, MarkDeployedInv, ArchiveDeployedInv DEF Deploy
<1>4. CASE UNCHANGED vars
  BY <1>4 DEF vars, Inv, TypeOK, Progress, Left, Reader, Begun, NoPart, HasWhole
<1>5. CASE AllServed
  BY <1>4, <1>5 DEF AllServed
<1>6. QED  BY <1>1, <1>2, <1>3, <1>4, <1>5, CrashInv, DeleteInv DEF Next

\* The invariant holds of every behaviour.
THEOREM AlwaysInv == Spec => []Inv
<1>1. QED  BY InitInv, NextInv, PTL DEF Spec

\* The stores keep their types, and a handler that works on an artifact holds one
\* (create_artifact, get_artifact, mark_deployed in routes/ and store.py).
THEOREM PipelineTypeCorrect == Spec => []TypeOK
<1>1. Inv => TypeOK  BY DEF Inv
<1>2. QED  BY <1>1, AlwaysInv, PTL

\* A compile answered 200 has left the renamed file, the registry entry and the
\* event, and the row too unless its session was deleted (compile_session).
THEOREM CompleteAnswers == Spec => []AnsweredIsComplete
<1>1. Inv => AnsweredIsComplete
  <2> SUFFICES ASSUME Inv, NEW c \in Compiles, code[c] = 200
               PROVE  /\ disk[c]["final"] = "whole" /\ registry[c] # "absent"
                      /\ <<"compile.produced", c>> \in archived
                      /\ rows[c] = "final" \/ (rows[c] = Nothing /\ ~present)
    BY DEF AnsweredIsComplete
  <2>1. Left(c) /\ rows[c] \in Names \cup {Nothing} /\ present \in BOOLEAN
    BY DEF Inv, TypeOK
  <2>2. QED  BY <2>1 DEF Left, Names
<1>2. QED  BY <1>1, AlwaysInv, PTL

\* What the registry lists can be downloaded, or went with its session: the entry is
\* written after the file has its name and the row its path (registry.create_record).
THEOREM RegistryObtainable == Spec => []RegisteredIsObtainable
<1>1. Inv => RegisteredIsObtainable
  <2> SUFFICES ASSUME Inv, NEW c \in Compiles, registry[c] # "absent"
               PROVE  /\ disk[c]["final"] = "whole"
                      /\ rows[c] = "final" \/ (rows[c] = Nothing /\ ~present)
    BY DEF RegisteredIsObtainable
  <2>1. Left(c) /\ rows[c] \in Names \cup {Nothing} /\ present \in BOOLEAN
    BY DEF Inv, TypeOK
  <2>2. QED  BY <2>1 DEF Left, Names
<1>2. QED  BY <1>1, AlwaysInv, PTL

\* No download delivers a part of a file, whatever is renamed, deleted or cut short
\* between its read of the row and its read of the path (download_artifact).
THEOREM WholeDeliveries == Spec => []DeliversWhole
<1>1. Inv => DeliversWhole  BY DEF Inv, Reader, DeliversWhole
<1>2. QED  BY <1>1, AlwaysInv, PTL

\* The archive is never ahead of the stores it tells of (the archive.append calls of
\* the handlers follow the change they announce).
THEOREM BackedArchive == Spec => []ArchiveIsBacked
<1>1. Inv => ArchiveIsBacked  BY ZenonT(40) DEF Inv, Left, HasWhole, ArchiveIsBacked
<1>2. QED  BY <1>1, AlwaysInv, PTL
=============================================================================
