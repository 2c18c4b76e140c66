-------------------------- MODULE DataCentreProofs --------------------------
(***************************************************************************)
(* For any number of rows and files, any setup and any number of faults:   *)
(* the state has its types and no file is lost, the saved key skips no row *)
(* but late ones and those that a failed fetch left unread, and what is in *)
(* the backup directory has been loaded, but for what its copy lacked.     *)
(*                                                                         *)
(* The inductive invariant says of each tool what it still owes: the       *)
(* extraction the rows between the saved key and the greatest it has read, *)
(* the ftp tools the files they have sent and not yet recorded or removed, *)
(* the loader the rows of the file it works on.                            *)
(*                                                                         *)
(* Of the data access web server: a client is sent the replies to its own  *)
(* requests.  Its invariant says that a descriptor number whose owner      *)
(* began with nothing on its way has at most one request or reply on its   *)
(* way, in one place, and that it is its owner's latest.                   *)
(*                                                                         *)
(* Of the loaders of the weather stations: what a pass over the list of    *)
(* the stations saves it saves together, because its transaction has just  *)
(* the stations that it has gone through, unless the list was written in   *)
(* place or a station was passed over (mixed); and a file of observations  *)
(* that the loader is done with is in the table: no file changes once it   *)
(* has its name, and what was read of it is in the transaction.            *)
(*                                                                         *)
(* Of the FTP client: a reply is judged for its own command, and a file    *)
(* that is accepted is whole.  The invariant says which replies are on     *)
(* their way at each step of a call, and what the file on its way has to   *)
(* do with the time that the client has of it.                             *)
(***************************************************************************)
EXTENDS DataCentre, WebServer, Stations, Surfdata, Ftp, TLAPS, FiniteSetTheorems, SequenceTheorems

Written == UNION {rows[f] : f \in Files}

\* Files get the numbers 1, 2, ... in turn.
InTurn == \E n \in 0..MaxFiles : Made = 1..n

\* What the extraction has found and not yet written is in extract.left, what a
\* failed fetch makes it pass over too.
ExtractOK ==
  /\ extract \in [at : {"down", "write", "save", "truncated"}, left : SUBSET source]
  /\ incfile \cup {imaxincvalue} \subseteq source \cup {0}
  /\ extract.at = "down" => imaxincvalue = 0 /\ extract.left = {}
  /\ extract.at = "write" => extract.left # {}
  /\ \A r \in source \ (late \cup unread) : \A k \in {imaxincvalue} \cup extract.left :
       r <= k => r \in Written \cup extract.left
  /\ NothingSkipped

\* A file just put or got is at its destination, or further on.
ToolsOK ==
  /\ upload \in [left : SUBSET outpath, sent : SUBSET outpath]
  /\ upload.sent \subseteq upload.left
  /\ upload.sent \subseteq server \cup xmlpath \cup xmlpathbak \cup xmlpatherr
  /\ "upload" \in remove => upokfile = {}
  /\ download \in [left : SUBSET (Made \X Nat), sent : SUBSET (Made \X Nat)]
  /\ \A file \in download.sent : file[1] \in xmlpath \cup xmlpathbak \cup xmlpatherr
  /\ uploads \in [Files -> Nat]

\* The rows of the loader's file are those of its transaction, then the table's.
LoadOK ==
  /\ load \in [at : {"down", "list", "file", "commit", "move"}, files : SUBSET Made,
               file : Made \cup {0}]
  /\ load.at \in {"commit", "move"} => load.file \in Made
  /\ lost \in BOOLEAN
  /\ load.at = "commit" /\ ~lost => rows[load.file] \ (Bad \cup missing) \subseteq inserted
  /\ load.at = "move" /\ load.file \notin spoiled => rows[load.file] \ (Bad \cup missing) \subseteq table
  /\ BackedUpIsLoaded

Inv == TypeOK /\ InTurn /\ ExtractOK /\ ToolsOK /\ LoadOK

USE CentreAssumption DEF copies

-----------------------------------------------------------------------------
\* It holds before the first tool starts.
LEMMA InitInv == Init => Inv
<1>. SUFFICES ASSUME Init PROVE Inv
  OBVIOUS
<1>1. Made = {} /\ Written = {} /\ 1..0 = {}
  BY DEF Init, Made, Written
<1>2. TypeOK
  BY <1>1 DEF Init, TypeOK, Stopped
<1>3. InTurn
  BY <1>1 DEF InTurn
<1>4. ExtractOK
  BY <1>1 DEF Init, ExtractOK, Down, NothingSkipped
<1>5. ToolsOK
  BY <1>1 DEF Init, ToolsOK, Ended
<1>6. LoadOK
  BY <1>1 DEF Init, LoadOK, Stopped, BackedUpIsLoaded
<1>. QED
  BY <1>2, <1>3, <1>4, <1>5, <1>6 DEF Inv

-----------------------------------------------------------------------------
(* The extraction.                                                         *)

\* Nothing else sees a new row; one below a key that was extracted is late.
LEMMA CommitRowInv ==
  ASSUME Inv, NEW r \in Rows, CommitRow(r)
  PROVE  Inv'
<1>1. Made' = Made /\ Written' = Written /\ source \subseteq source'
  BY DEF CommitRow, Made, Written, dirs
<1>2. TypeOK'
  BY <1>1 DEF Inv, TypeOK, CommitRow, config, dirs, ftp, loader
<1>3. InTurn'
  BY <1>1 DEF Inv, InTurn
<1>4. ExtractOK'
  <2>0. source \subseteq Rows /\ r \notin source /\ Rows \subseteq Nat \ {0}
    BY DEF Inv, TypeOK, CommitRow
  <2>1. \A k \in {imaxincvalue} \cup extract.left \cup incfile : r \in Nat /\ k \in Nat /\ k # r
    <3>1. {imaxincvalue} \cup extract.left \cup incfile \subseteq source \cup {0}
      <4>1. extract.left \subseteq source /\ incfile \cup {imaxincvalue} \subseteq source \cup {0}
        BY DEF Inv, ExtractOK
      <4>. QED
        BY <4>1
    <3>2. r \in Nat /\ r # 0 /\ r \notin source /\ \A k \in source \cup {0} : k \in Nat
      BY <2>0
    <3>. QED
      BY <3>1, <3>2
  <2>2. \A k \in {imaxincvalue} \cup extract.left \cup incfile : r <= k => r \in late'
    <3>1. \A k \in {imaxincvalue} \cup extract.left \cup incfile : r <= k => r < k
      BY <2>1
    <3>. QED
      BY <3>1 DEF CommitRow, Passed
  <2>. QED
    BY <1>1, <2>2 DEF Inv, TypeOK, ExtractOK, CommitRow, NothingSkipped, Written, dirs
<1>5. ToolsOK'
  BY <1>1 DEF Inv, ToolsOK, CommitRow, config, dirs, ftp
<1>6. LoadOK'
  BY <1>1 DEF Inv, LoadOK, BackedUpIsLoaded, CommitRow, dirs, ftp, loader
<1>. QED
  BY <1>2, <1>3, <1>4, <1>5, <1>6 DEF Inv

\* The query finds every row above the saved key.
LEMMA QueryInv ==
  ASSUME Inv, Query
  PROVE  Inv'
<1>1. Made' = Made /\ Written' = Written
  BY DEF Query, Made, Written, dirs
<1>2. PICK saved \in incfile : /\ {r \in source : r > saved} # {}
                               /\ extract' = [at |-> "write", left |-> {r \in source : r > saved}]
                               /\ imaxincvalue' = saved
  BY DEF Query
<1>3. TypeOK'
  BY <1>1, <1>2 DEF Inv, TypeOK, ExtractOK, Query, config, dirs, ftp, loader
<1>4. InTurn'
  BY <1>1 DEF Inv, InTurn
<1>5. ExtractOK'
  <2>0. source \subseteq Nat
    BY DEF Inv, TypeOK
  <2>1. \A r \in source : r \in Nat /\ saved \in Nat
    <3>1. saved \in source \cup {0}
      BY DEF Inv, ExtractOK
    <3>. QED
      BY <2>0, <3>1
  <2>2. \A r \in source \ (late \cup unread) : r <= saved => r \in Written
    BY DEF Inv, ExtractOK, NothingSkipped, Written
  <2>3. \A r \in source : r <= saved \/ r \in extract'.left
    BY <1>2, <2>1
  <2>. QED
    BY <1>1, <1>2, <2>2, <2>3 DEF Inv, TypeOK, ExtractOK, Query, NothingSkipped, Written, dirs
<1>6. ToolsOK'
  BY <1>1 DEF Inv, ToolsOK, Query, config, dirs, ftp
<1>7. LoadOK'
  BY <1>1 DEF Inv, LoadOK, BackedUpIsLoaded, Query, dirs, ftp, loader
<1>. QED
  BY <1>3, <1>4, <1>5, <1>6, <1>7 DEF Inv

\* The number after those of the files made is free, and its file is not empty.
LEMMA NextNumber ==
  ASSUME Inv, NEW n \in 0..MaxFiles, Made = 1..n
  PROVE  Cardinality(Made) + 1 = n + 1 /\ n + 1 \notin Made
<1>1. n \in Nat /\ n \in Int /\ 1 \in Int
  OBVIOUS
<1>2. Cardinality(1..n) = IF 1 > n THEN 0 ELSE n - 1 + 1
  BY <1>1, FS_Interval
<1>. QED
  BY <1>1, <1>2

LEMMA PartNotEmpty ==
  ASSUME Inv, NEW left, left # {}, NEW part \in SUBSET left,
         part = left \/ Cardinality(part) = maxcount
  PROVE  part # {}
<1>1. maxcount # 0
  BY DEF Inv, TypeOK
<1>. QED
  BY <1>1, FS_EmptySet

\* The rows of a new file are written, and no other file changes.
LEMMA FileMade ==
  ASSUME Inv, NEW part \in SUBSET extract.left,
         \/ part # {} /\ NewFile(part)
         \/ part = {} /\ UNCHANGED <<rows, outpath>>,
         UNCHANGED <<source, server, xmlpath, xmlpathbak, xmlpatherr>>
  PROVE  /\ rows' \in [Files -> SUBSET source]
         /\ InTurn'
         /\ Written' = Written \cup part
         /\ Made' = (outpath \cup server \cup xmlpath \cup xmlpathbak \cup xmlpatherr)'
         /\ Made \subseteq Made' /\ \A g \in Made : rows'[g] = rows[g]
         /\ outpath \subseteq outpath'
<1>1. rows \in [Files -> SUBSET source] /\ part \subseteq source
      /\ Made = outpath \cup server \cup xmlpath \cup xmlpathbak \cup xmlpatherr
  BY DEF Inv, TypeOK, ExtractOK
<1>2. CASE part = {} /\ UNCHANGED <<rows, outpath>>
  <2>1. Made' = Made /\ Written' = Written
    BY <1>2 DEF Made, Written
  <2>. QED
    BY <1>1, <1>2, <2>1 DEF Inv, InTurn
<1>3. CASE part # {} /\ NewFile(part)
  <2>1. PICK f \in Files : /\ f = Cardinality(Made) + 1
                          /\ rows' = [rows EXCEPT ![f] = part]
                          /\ outpath' = outpath \cup {f}
    BY <1>3 DEF NewFile
  <2>2. PICK n \in 0..MaxFiles : Made = 1..n
    BY DEF Inv, InTurn
  <2>3. n \in Nat /\ f = n + 1 /\ f \notin Made /\ n + 1 \in 0..MaxFiles
    BY <2>1, <2>2, NextNumber DEF Files
  <2>4. Made' = Made \cup {f} /\ rows'[f] = part /\ \A g \in Files \ {f} : rows'[g] = rows[g]
    BY <1>1, <1>3, <2>1 DEF Made
  <2>5. Written' = Written \cup part
    <3>1. rows[f] = {}
      BY <1>1, <2>3 DEF Made
    <3>. QED
      BY <2>4, <3>1 DEF Written
  <2>6. InTurn'
    <3>1. 1..(n + 1) = 1..n \cup {n + 1}
      BY <2>3
    <3>. QED
      BY <2>2, <2>3, <2>4, <3>1 DEF InTurn
  <2>7. \A g \in Made : rows'[g] = rows[g]
    BY <2>3, <2>4 DEF Made
  <2>8. rows' \in [Files -> SUBSET source]
    BY <1>1, <2>1
  <2>9. Made' = (outpath \cup server \cup xmlpath \cup xmlpathbak \cup xmlpatherr)'
    BY <1>1, <2>1, <2>4
  <2>. QED
    BY <2>1, <2>4, <2>5, <2>6, <2>7, <2>8, <2>9
<1>. QED
  BY <1>2, <1>3

LEMMA WriteFileInv ==
  ASSUME Inv, WriteFile
  PROVE  Inv'
<1>1. PICK m \in Rows \cup {0}, part \in SUBSET extract.left :
        /\ part = extract.left \/ Cardinality(part) = maxcount
        /\ NewFile(part)
        /\ IsGreatest(m, {imaxincvalue} \cup part) /\ imaxincvalue' = m
        /\ extract' = [at |-> IF part = extract.left THEN "save" ELSE "write",
                       left |-> extract.left \ part]
  BY DEF WriteFile
<1>2. part # {}
  BY <1>1, PartNotEmpty DEF Inv, ExtractOK, WriteFile
<1>3. /\ rows' \in [Files -> SUBSET source]
      /\ InTurn'
      /\ Written' = Written \cup part
      /\ Made' = (outpath \cup server \cup xmlpath \cup xmlpathbak \cup xmlpatherr)'
      /\ Made \subseteq Made' /\ \A g \in Made : rows'[g] = rows[g]
      /\ outpath \subseteq outpath'
  BY <1>1, <1>2, FileMade DEF WriteFile
<1>8. TypeOK'
  BY <1>1, <1>3 DEF Inv, TypeOK, WriteFile, config, ftp, loader
<1>10. ExtractOK'
  <2>1. m \in {imaxincvalue} \cup extract.left
    BY <1>1 DEF IsGreatest
  <2>2. Written' \cup extract'.left = Written \cup extract.left
    BY <1>1, <1>3
  <2>3. extract' \in [at : {"down", "write", "save", "truncated"}, left : SUBSET source]
    BY <1>1 DEF Inv, ExtractOK
  <2>4. \A r \in source \ (late \cup unread) : \A k \in {imaxincvalue'} \cup extract'.left :
           r <= k => r \in Written' \cup extract'.left
    BY <1>1, <2>1, <2>2 DEF Inv, ExtractOK
  <2>5. NothingSkipped'
    BY <1>3 DEF Inv, ExtractOK, NothingSkipped, WriteFile, Written
  <2>6. (incfile \cup {imaxincvalue})' \subseteq source \cup {0}
    BY <1>1, <2>1 DEF Inv, ExtractOK, WriteFile
  <2>7. extract'.at # "down" /\ (extract'.at = "write" => extract'.left # {})
    <3>1. part = extract.left <=> extract.left \ part = {}
      OBVIOUS
    <3>. QED
      BY <1>1, <3>1
  <2>. QED
    BY <2>3, <2>4, <2>5, <2>6, <2>7 DEF ExtractOK, WriteFile
<1>11. ToolsOK'
  BY <1>3 DEF Inv, ToolsOK, WriteFile, config, ftp
<1>12. LoadOK'
  <2>1. xmlpathbak \subseteq Made
    BY DEF Inv, TypeOK
  <2>. QED
    BY <1>3, <2>1 DEF Inv, LoadOK, BackedUpIsLoaded, WriteFile, ftp, loader
<1>. QED
  BY <1>3, <1>8, <1>10, <1>11, <1>12 DEF Inv

\* What was not read below the greatest key read is still in extract.left.
LEMMA FetchFailsInv ==
  ASSUME Inv, FetchFails, faults' = faults + 1, faults < MaxFaults, UNCHANGED config
  PROVE  Inv'
<1>1. PICK m \in Rows \cup {0}, part \in SUBSET extract.left :
        /\ \/ part # {} /\ NewFile(part)
           \/ part = {} /\ UNCHANGED <<rows, outpath>>
        /\ IsGreatest(m, {imaxincvalue} \cup part)
        /\ \/ m \in incfile /\ extract' = Down /\ imaxincvalue' = 0
           \/ /\ extract' = [at |-> "save", left |-> {r \in extract.left \ part : r <= m}]
              /\ imaxincvalue' = m
  BY DEF FetchFails
<1>2. faults' \in 0..MaxFaults
  BY DEF Inv, TypeOK
<1>3. /\ rows' \in [Files -> SUBSET source]
      /\ InTurn'
      /\ Written' = Written \cup part
      /\ Made' = (outpath \cup server \cup xmlpath \cup xmlpathbak \cup xmlpatherr)'
      /\ Made \subseteq Made' /\ \A g \in Made : rows'[g] = rows[g]
      /\ outpath \subseteq outpath'
  BY <1>1, FileMade DEF FetchFails
<1>4. TypeOK'
  BY <1>1, <1>2, <1>3 DEF Inv, TypeOK, FetchFails, config, ftp, loader
<1>5. ExtractOK'
  <2>1. m \in {imaxincvalue} \cup extract.left /\ source \subseteq Nat /\ m \in source \cup {0}
    BY <1>1 DEF IsGreatest, Inv, TypeOK, ExtractOK
  <2>2. NothingSkipped'
    BY <1>3 DEF Inv, ExtractOK, NothingSkipped, FetchFails, Written
  <2>3. CASE extract' = Down /\ imaxincvalue' = 0
    <3>1. \A r \in source : ~(r <= 0)
      BY DEF Inv, TypeOK
    <3>. QED
      BY <2>2, <2>3, <3>1 DEF Inv, ExtractOK, FetchFails, Down
  <2>4. CASE /\ extract' = [at |-> "save", left |-> {r \in extract.left \ part : r <= m}]
             /\ imaxincvalue' = m
    <3>1. \A r \in source \ (late \cup unread) : r <= m => r \in Written \cup extract.left
      BY <2>1 DEF Inv, ExtractOK
    <3>2. \A r \in source \ (late \cup unread) : r <= m => r \in Written' \cup extract'.left
      BY <1>3, <2>4, <3>1
    <3>3. extract'.left \subseteq source /\ \A k \in extract'.left : k <= m
      BY <2>4 DEF Inv, ExtractOK
    <3>4. \A r \in source \ (late \cup unread) : \A k \in {m} \cup extract'.left : r <= k => r <= m
      BY <2>1, <3>3
    <3>5. extract' \in [at : {"down", "write", "save", "truncated"}, left : SUBSET source]
          /\ extract'.at = "save"
      BY <2>4, <3>3
    <3>. QED
      BY <2>1, <2>2, <2>4, <3>2, <3>4, <3>5 DEF Inv, ExtractOK, FetchFails
  <2>. QED
    BY <1>1, <2>3, <2>4
<1>6. ToolsOK'
  BY <1>3 DEF Inv, ToolsOK, FetchFails, config, ftp
<1>7. LoadOK'
  <2>1. xmlpathbak \subseteq Made
    BY DEF Inv, TypeOK
  <2>. QED
    BY <1>3, <2>1 DEF Inv, LoadOK, BackedUpIsLoaded, FetchFails, ftp, loader
<1>. QED
  BY <1>3, <1>4, <1>5, <1>6, <1>7 DEF Inv

\* What is saved is the greatest key of the rows written.
LEMMA SaveIncInv ==
  ASSUME Inv, SaveInc
  PROVE  Inv'
<1>1. Made' = Made /\ Written' = Written
  BY DEF SaveInc, Made, Written, dirs
<1>2. /\ incfile' \in {{}, {imaxincvalue}}
      /\ imaxincvalue' \in {0, imaxincvalue}
      /\ \/ extract' = Down /\ imaxincvalue' = 0
         \/ extract' = [extract EXCEPT !.at = "truncated"] /\ imaxincvalue' = imaxincvalue
      /\ extract.at \in {"save", "truncated"}
  <2>1. extract.at \in {"save", "truncated"}
    BY DEF SaveInc
  <2>. QED
    BY <2>1 DEF SaveInc, Inv, ExtractOK
<1>3. TypeOK'
  BY <1>1, <1>2 DEF Inv, TypeOK, ExtractOK, SaveInc, config, dirs, ftp, loader
<1>4. InTurn'
  BY <1>1 DEF Inv, InTurn
<1>5. ExtractOK'
  <2>1. extract' \in [at : {"down", "truncated"}, left : SUBSET source]
    BY <1>2 DEF Down, Inv, ExtractOK
  <2>2. \A r \in source \ (late \cup unread) : r <= imaxincvalue => r \in Written \cup extract.left
    BY <1>2 DEF Inv, ExtractOK
  <2>3. \A r \in source : ~(r <= 0)
    BY DEF Inv, TypeOK
  <2>4. NothingSkipped'
    BY <1>1, <1>2, <2>2 DEF NothingSkipped, SaveInc, Written
  <2>5. \A r \in source \ (late \cup unread') : \A k \in {imaxincvalue'} \cup extract'.left :
           r <= k => r \in Written \cup extract'.left
    <3>1. CASE extract' = Down /\ imaxincvalue' = 0
      BY <2>3, <3>1 DEF Down
    <3>2. CASE extract' = [extract EXCEPT !.at = "truncated"] /\ imaxincvalue' = imaxincvalue
      <4>1. extract'.left = extract.left /\ unread \subseteq unread'
        BY <3>2 DEF SaveInc, Inv, ExtractOK
      <4>. QED
        BY <3>2, <4>1 DEF Inv, ExtractOK
    <3>. QED
      BY <1>2, <3>1, <3>2
  <2>6. (incfile \cup {imaxincvalue})' \subseteq source \cup {0}
    BY <1>2 DEF Inv, ExtractOK
  <2>7. extract'.at = "down" => imaxincvalue' = 0 /\ extract'.left = {}
    BY <1>2 DEF Inv, ExtractOK, Down
  <2>. QED
    BY <1>1, <2>1, <2>4, <2>5, <2>6, <2>7 DEF ExtractOK, SaveInc
<1>6. ToolsOK'
  BY <1>1 DEF Inv, ToolsOK, SaveInc, config, dirs, ftp
<1>7. LoadOK'
  BY <1>1 DEF Inv, LoadOK, BackedUpIsLoaded, SaveInc, dirs, ftp, loader
<1>. QED
  BY <1>3, <1>4, <1>5, <1>6, <1>7 DEF Inv

-----------------------------------------------------------------------------
(* The ftp tools.  None of them touches a row.                             *)

\* What a process has to send is what is there and not recorded.
LEMMA UploadListInv ==
  ASSUME Inv, UploadList
  PROVE  Inv'
<1>1. Made' = Made /\ Written' = Written
  BY DEF UploadList, Made, Written, dirs
<1>5. InTurn'
  BY <1>1 DEF Inv, InTurn
<1>6. ExtractOK'
  BY <1>1 DEF Inv, ExtractOK, UploadList, NothingSkipped, Written, mine, dirs
<1>7. LoadOK'
  BY <1>1 DEF Inv, LoadOK, BackedUpIsLoaded, UploadList, loader, dirs
<1>8. TypeOK'
  BY <1>1 DEF Inv, TypeOK, ToolsOK, UploadList, config, mine, loader, dirs
<1>9. ToolsOK'
  BY <1>1 DEF Inv, TypeOK, ToolsOK, UploadList, config, mine, dirs
<1>. QED
  BY <1>5, <1>6, <1>7, <1>8, <1>9 DEF Inv

\* A file is put before it is recorded or removed.
LEMMA PutInv ==
  ASSUME Inv, Put
  PROVE  Inv'
<1>1. Made' = Made /\ Written' = Written
  BY DEF Put, Made, Written
<1>5. InTurn'
  BY <1>1 DEF Inv, InTurn
<1>6. ExtractOK'
  BY <1>1 DEF Inv, ExtractOK, Put, NothingSkipped, Written, mine
<1>7. LoadOK'
  BY <1>1 DEF Inv, LoadOK, BackedUpIsLoaded, Put, loader
<1>8. TypeOK'
  BY <1>1 DEF Inv, TypeOK, ToolsOK, Put, config, mine, loader
<1>9. ToolsOK'
  <2>1. PICK f \in upload.left : /\ server' = server \cup {f}
                                 /\ uploads' = [uploads EXCEPT ![f] = @ + 1]
                                 /\ upload' = [upload EXCEPT !.sent = {f}]
    BY DEF Put
  <2>2. upload' \in [left : SUBSET outpath, sent : SUBSET outpath]
        /\ upload'.left = upload.left /\ upload'.sent = {f}
    BY <2>1 DEF Inv, ToolsOK
  <2>3. uploads' \in [Files -> Nat]
    <3>1. f \in Files /\ uploads \in [Files -> Nat]
      BY DEF Inv, TypeOK, ToolsOK, Made
    <3>2. uploads[f] + 1 \in Nat
      BY <3>1
    <3>. QED
      BY <2>1, <3>1, <3>2
  <2>. QED
    BY <1>1, <2>1, <2>2, <2>3 DEF Inv, ToolsOK, Put, config, mine
<1>. QED
  BY <1>5, <1>6, <1>7, <1>8, <1>9 DEF Inv

\* It may have gone further on, but it is not lost.
LEMMA PutDoneInv ==
  ASSUME Inv, PutDone
  PROVE  Inv'
<1>1. Made' = Made /\ Written' = Written
  BY DEF PutDone, Made, Written
<1>5. InTurn'
  BY <1>1 DEF Inv, InTurn
<1>6. ExtractOK'
  BY <1>1 DEF Inv, ExtractOK, PutDone, NothingSkipped, Written, mine
<1>7. LoadOK'
  BY <1>1 DEF Inv, LoadOK, BackedUpIsLoaded, PutDone, loader
<1>8. TypeOK'
  BY <1>1 DEF Inv, TypeOK, ToolsOK, PutDone, config, mine, loader, Rest
<1>9. ToolsOK'
  BY <1>1 DEF Inv, TypeOK, ToolsOK, PutDone, config, mine, Rest
<1>. QED
  BY <1>5, <1>6, <1>7, <1>8, <1>9 DEF Inv

\* Files and their times.
LEMMA DownloadListInv ==
  ASSUME Inv, DownloadList
  PROVE  Inv'
<1>1. Made' = Made /\ Written' = Written
  BY DEF DownloadList, Made, Written, dirs
<1>5. InTurn'
  BY <1>1 DEF Inv, InTurn
<1>6. ExtractOK'
  BY <1>1 DEF Inv, ExtractOK, DownloadList, NothingSkipped, Written, mine, dirs
<1>7. LoadOK'
  BY <1>1 DEF Inv, LoadOK, BackedUpIsLoaded, DownloadList, loader, dirs
<1>8. TypeOK'
  BY <1>1 DEF Inv, TypeOK, ToolsOK, DownloadList, config, mine, loader, dirs
<1>9. ToolsOK'
  <2>1. {<<f, uploads[f]>> : f \in server} \subseteq Made \X Nat
    BY DEF Inv, TypeOK, ToolsOK, Made
  <2>2. download' \in [left : SUBSET (Made \X Nat), sent : SUBSET (Made \X Nat)]
        /\ download'.sent = {}
    BY <2>1 DEF DownloadList
  <2>. QED
    BY <1>1, <2>2 DEF Inv, ToolsOK, DownloadList, config, mine, dirs
<1>. QED
  BY <1>5, <1>6, <1>7, <1>8, <1>9 DEF Inv

\* A file is got before it is recorded or removed; what the copy lacks is cut.
LEMMA DeliverInv ==
  ASSUME Inv, NEW file \in download.left, NEW gone \in SUBSET rows[file[1]], Deliver(file, gone),
         missing' = missing \cup gone, faults' \in 0..MaxFaults, UNCHANGED config,
         UNCHANGED <<mine, rows, outpath, server, xmlpathbak, xmlpatherr,
                     upload, upokfile, downokfile, uploads, loader>>
  PROVE  Inv'
<1>1. Made' = Made /\ Written' = Written
  BY DEF Made, Written
<1>2. file[1] \in Made /\ file[1] \in Files /\ gone \subseteq source
  BY DEF Inv, TypeOK, ToolsOK, Made
<1>3. lacks' \in [Files -> SUBSET missing']
  BY DEF Inv, TypeOK, Deliver
<1>5. InTurn'
  BY <1>1 DEF Inv, InTurn
<1>6. ExtractOK'
  BY <1>1 DEF Inv, ExtractOK, NothingSkipped, Written, mine
<1>7. LoadOK'
  BY <1>1 DEF Inv, LoadOK, BackedUpIsLoaded, loader
<1>8. TypeOK'
  BY <1>1, <1>2, <1>3 DEF Inv, TypeOK, ToolsOK, Deliver, config, mine, loader
<1>9. ToolsOK'
  BY <1>1 DEF Inv, TypeOK, ToolsOK, Deliver, config, mine
<1>. QED
  BY <1>5, <1>6, <1>7, <1>8, <1>9 DEF Inv

LEMMA GetInv ==
  ASSUME Inv, Get
  PROVE  Inv'
<1>1. PICK file \in download.left : Deliver(file, {})
  BY DEF Get
<1>2. faults' \in 0..MaxFaults /\ missing' = missing \cup {}
  BY DEF Get, Inv, TypeOK
<1>. QED
  BY <1>1, <1>2, DeliverInv DEF Get

LEMMA GetCutInv ==
  ASSUME Inv, GetCut, faults' = faults + 1, faults < MaxFaults, UNCHANGED config
  PROVE  Inv'
<1>1. PICK file \in download.left : \E gone \in SUBSET rows[file[1]] :
        Deliver(file, gone) /\ missing' = missing \cup gone
  BY DEF GetCut
<1>2. faults' \in 0..MaxFaults
  BY DEF Inv, TypeOK
<1>. QED
  BY <1>1, <1>2, DeliverInv DEF GetCut

\* What is removed from the server is in the directory of the loader, or was.
LEMMA GetDoneInv ==
  ASSUME Inv, GetDone
  PROVE  Inv'
<1>1. Made' = Made /\ Written' = Written
  BY DEF GetDone, Made, Written
<1>5. InTurn'
  BY <1>1 DEF Inv, InTurn
<1>6. ExtractOK'
  BY <1>1 DEF Inv, ExtractOK, GetDone, NothingSkipped, Written, mine
<1>7. LoadOK'
  BY <1>1 DEF Inv, LoadOK, BackedUpIsLoaded, GetDone, loader
<1>8. TypeOK'
  BY <1>1 DEF Inv, TypeOK, ToolsOK, GetDone, config, mine, loader, Rest
<1>9. ToolsOK'
  BY <1>1 DEF Inv, TypeOK, ToolsOK, GetDone, config, mine, Rest
<1>. QED
  BY <1>5, <1>6, <1>7, <1>8, <1>9 DEF Inv

-----------------------------------------------------------------------------
(* The loader, and the faults.                                             *)

\* A list of files that are there.
LEMMA ListXmlInv ==
  ASSUME Inv, ListXml
  PROVE  Inv'
<1>1. Made' = Made /\ Written' = Written
  BY DEF ListXml, Made, Written, dirs
<1>2. TypeOK'
  BY <1>1 DEF Inv, TypeOK, ListXml, config, mine, dirs, ftp
<1>3. InTurn'
  BY <1>1 DEF Inv, InTurn
<1>4. ExtractOK'
  BY <1>1 DEF Inv, ExtractOK, ListXml, NothingSkipped, Written, mine, dirs
<1>5. ToolsOK'
  BY <1>1 DEF Inv, ToolsOK, ListXml, config, dirs, ftp
<1>6. LoadOK'
  BY <1>1 DEF Inv, TypeOK, LoadOK, BackedUpIsLoaded, ListXml, dirs, ftp
<1>. QED
  BY <1>2, <1>3, <1>4, <1>5, <1>6 DEF Inv

\* The transaction holds the rows of the file.
LEMMA LoadRowsInv ==
  ASSUME Inv, LoadRows
  PROVE  Inv'
<1>1. Made' = Made /\ Written' = Written
  <2>1. rows' = rows
    BY DEF LoadRows, dirs
  <2>. QED
    BY <2>1 DEF Made, Written
<1>2. CASE lost /\ load' = Stopped /\ UNCHANGED inserted
  <2>1. TypeOK'
    BY <1>1, <1>2 DEF Inv, TypeOK, LoadRows, config, mine, dirs, ftp
  <2>2. LoadOK'
    BY <1>1, <1>2 DEF Inv, LoadOK, BackedUpIsLoaded, LoadRows, Stopped, dirs, ftp
  <2>. QED
    BY <1>1, <2>1, <2>2
    DEF Inv, InTurn, ExtractOK, ToolsOK, LoadRows, NothingSkipped, Written, config, mine, dirs, ftp
<1>3. CASE ~lost /\ \E f \in load.files : /\ load' = [load EXCEPT !.at = "commit", !.file = f]
                                         /\ inserted' = rows[f] \ (Bad \cup lacks[f])
  <2>1. PICK f \in load.files : /\ load' = [load EXCEPT !.at = "commit", !.file = f]
                               /\ inserted' = rows[f] \ (Bad \cup lacks[f])
    BY <1>3
  <2>2. f \in Made /\ f \in Files /\ rows[f] \subseteq source
    BY DEF Inv, TypeOK, LoadOK, Made
  <2>3. TypeOK'
    BY <1>1, <2>1, <2>2 DEF Inv, TypeOK, LoadRows, config, mine, dirs, ftp
  <2>4. load' \in [at : {"down", "list", "file", "commit", "move"}, files : SUBSET Made,
                   file : Made \cup {0}]
        /\ load'.at = "commit" /\ load'.file = f
    BY <2>1, <2>2 DEF Inv, LoadOK
  <2>5. LoadOK'
    BY <1>1, <2>1, <2>2, <2>4 DEF Inv, LoadOK, TypeOK, BackedUpIsLoaded, LoadRows, dirs, ftp
  <2>. QED
    BY <1>1, <2>3, <2>5
    DEF Inv, InTurn, ExtractOK, ToolsOK, LoadRows, NothingSkipped, Written, config, mine, dirs, ftp
<1>. QED
  BY <1>2, <1>3 DEF LoadRows, IsNext

\* The rows of the transaction are in the table, or its file is spoiled.
LEMMA CommitInv ==
  ASSUME Inv, Commit
  PROVE  Inv'
<1>1. Made' = Made /\ Written' = Written
  BY DEF Commit, Made, Written, dirs
<1>2. load' \in [at : {"down", "list", "file", "commit", "move"}, files : SUBSET Made,
                 file : Made \cup {0}]
      /\ load'.at = "move" /\ load'.file = load.file /\ load.file \in Made
  BY DEF Inv, LoadOK, Commit
<1>3. TypeOK'
  BY <1>1, <1>2 DEF Inv, TypeOK, Commit, config, mine, dirs, ftp
<1>4. InTurn'
  BY <1>1 DEF Inv, InTurn
<1>5. ExtractOK'
  BY <1>1 DEF Inv, ExtractOK, Commit, NothingSkipped, Written, mine, dirs
<1>6. ToolsOK'
  BY <1>1 DEF Inv, ToolsOK, Commit, config, dirs, ftp
<1>7. LoadOK'
  <2>1. CASE lost
    BY <1>1, <1>2, <2>1 DEF Inv, LoadOK, BackedUpIsLoaded, Commit, dirs, ftp
  <2>2. CASE ~lost
    BY <1>1, <1>2, <2>2 DEF Inv, LoadOK, BackedUpIsLoaded, Commit, dirs, ftp
  <2>. QED
    BY <2>1, <2>2
<1>. QED
  BY <1>3, <1>4, <1>5, <1>6, <1>7 DEF Inv

LEMMA AfterType ==
  ASSUME NEW S, load.files \in SUBSET S, NEW f
  PROVE  /\ After(f) \in [at : {"down", "list", "file", "commit", "move"}, files : SUBSET S,
                           file : S \cup {0}]
         /\ After(f).at \in {"list", "file"}
BY DEF After

\* The file moves with its rows loaded, or spoiled.
LEMMA MoveToBakInv ==
  ASSUME Inv, MoveToBak
  PROVE  Inv'
<1>1. Made' = Made /\ Written' = Written
  BY DEF MoveToBak, Made, Written
<1>2. load.file \in Made /\ load.files \in SUBSET Made
  BY DEF Inv, LoadOK, MoveToBak
<1>3. TypeOK'
  BY <1>1, <1>2 DEF Inv, TypeOK, MoveToBak, config, mine, ftp
<1>4. InTurn'
  BY <1>1 DEF Inv, InTurn
<1>5. ExtractOK'
  BY <1>1 DEF Inv, ExtractOK, MoveToBak, NothingSkipped, Written, mine
<1>6. ToolsOK'
  BY <1>1 DEF Inv, ToolsOK, MoveToBak, config, ftp
<1>7. LoadOK'
  BY <1>1, <1>2, AfterType DEF Inv, LoadOK, BackedUpIsLoaded, MoveToBak, ftp
<1>. QED
  BY <1>3, <1>4, <1>5, <1>6, <1>7 DEF Inv

\* A process that dies leaves its files behind, the loader's session its table.
LEMMA CrashInv ==
  ASSUME Inv, Crash, faults' = faults + 1, faults < MaxFaults, UNCHANGED config
  PROVE  Inv'
<1>1. rows' = rows /\ source' = source /\ late' = late /\ unread' = unread /\ incfile' = incfile /\ spoiled' = spoiled
      /\ UNCHANGED <<outpath, server, xmlpath, xmlpathbak, xmlpatherr, uploads, upokfile, downokfile,
                     copies, table>>
  BY DEF Crash, mine, dirs, ftp, loader
<1>2. Made' = Made /\ Written' = Written
  BY <1>1 DEF Made, Written
<1>3. /\ \/ extract' = Down /\ imaxincvalue' = 0
         \/ UNCHANGED <<extract, imaxincvalue>>
      /\ upload' \in {Ended, upload} /\ download' \in {Ended, download}
      /\ \/ load' = Stopped /\ inserted' = {} /\ lost' = FALSE
         \/ UNCHANGED <<load, inserted, lost>>
  BY DEF Crash, mine, ftp, loader
<1>4. faults' \in 0..MaxFaults
  BY DEF Inv, TypeOK
<1>5. TypeOK'
  BY <1>1, <1>2, <1>3, <1>4 DEF Inv, TypeOK, config
<1>6. InTurn'
  BY <1>2 DEF Inv, InTurn
<1>7. ExtractOK'
  <2>1. \A r \in source : ~(r <= 0)
    BY DEF Inv, TypeOK
  <2>2. NothingSkipped'
    BY <1>1 DEF Inv, ExtractOK, NothingSkipped
  <2>3. CASE extract' = Down /\ imaxincvalue' = 0
    BY <1>1, <1>2, <2>1, <2>2, <2>3 DEF Inv, ExtractOK, Down
  <2>4. CASE UNCHANGED <<extract, imaxincvalue>>
    BY <1>1, <1>2, <2>2, <2>4 DEF Inv, ExtractOK
  <2>. QED
    BY <1>3, <2>3, <2>4
<1>8. ToolsOK'
  BY <1>1, <1>2, <1>3 DEF Inv, ToolsOK, Ended, config
<1>9. LoadOK'
  <2>1. BackedUpIsLoaded'
    BY <1>1 DEF Inv, LoadOK, BackedUpIsLoaded
  <2>2. CASE load' = Stopped /\ inserted' = {} /\ lost' = FALSE
    BY <1>1, <1>2, <2>1, <2>2 DEF LoadOK, Stopped
  <2>3. CASE UNCHANGED <<load, inserted, lost>>
    BY <1>1, <1>2, <2>1, <2>3 DEF Inv, LoadOK
  <2>. QED
    BY <1>3, <2>2, <2>3
<1>. QED
  BY <1>5, <1>6, <1>7, <1>8, <1>9 DEF Inv

\* A broken session and a file that is set aside.
LEMMA OtherFaultInv ==
  ASSUME Inv, LoseDatabase \/ Reject, faults' = faults + 1, faults < MaxFaults, UNCHANGED config
  PROVE  Inv'
<1>1. Made' = Made /\ Written' = Written /\ UNCHANGED <<mine, ftp, rows, table, spoiled, outpath, server,
                                                          xmlpathbak>>
  BY DEF LoseDatabase, Reject, Made, Written, dirs
<1>2. faults' \in 0..MaxFaults
  BY DEF Inv, TypeOK
<1>3. xmlpath' \cup xmlpatherr' = xmlpath \cup xmlpatherr \/
      \E f \in load.files : xmlpath' = xmlpath \ {f} /\ xmlpatherr' = xmlpatherr \cup {f}
  BY DEF LoseDatabase, Reject, dirs
<1>4. (outpath \cup server \cup xmlpath \cup xmlpathbak \cup xmlpatherr)' = Made
  BY <1>1, <1>3 DEF Inv, TypeOK, LoadOK
<1>5. xmlpath \cup xmlpathbak \cup xmlpatherr \subseteq (xmlpath \cup xmlpathbak \cup xmlpatherr)'
  BY <1>1, <1>3
<1>6. inserted' \in {{}, inserted}
  BY DEF LoseDatabase, Reject
<1>7. TypeOK'
  BY <1>1, <1>2, <1>4, <1>5, <1>6 DEF Inv, TypeOK, config, mine, ftp
<1>8. InTurn'
  BY <1>1 DEF Inv, InTurn
<1>9. ExtractOK'
  BY <1>1 DEF Inv, ExtractOK, NothingSkipped, Written, mine
<1>10. ToolsOK'
  BY <1>1, <1>5 DEF Inv, ToolsOK, config, ftp
<1>11. LoadOK'
  <2>1. CASE LoseDatabase
    BY <1>1, <2>1 DEF Inv, LoadOK, BackedUpIsLoaded, LoseDatabase, ftp
  <2>2. CASE Reject
    BY <1>1, <2>2, AfterType DEF Inv, LoadOK, BackedUpIsLoaded, Reject, ftp
  <2>. QED
    BY <2>1, <2>2
<1>. QED
  BY <1>7, <1>8, <1>9, <1>10, <1>11 DEF Inv

-----------------------------------------------------------------------------
\* Every step keeps the invariant.
LEMMA StepInv == Inv /\ [Next]_vars => Inv'
<1>. SUFFICES ASSUME Inv, [Next]_vars PROVE Inv'
  OBVIOUS
<1>1. CASE UNCHANGED vars
  <2>1. UNCHANGED <<config, faults, mine, dirs, ftp, loader>>
    BY <1>1 DEF vars
  <2>2. Made' = Made /\ Written' = Written
    BY <2>1 DEF dirs, Made, Written
  <2>3. TypeOK'
    BY <2>1, <2>2 DEF Inv, TypeOK, config, mine, dirs, ftp, loader
  <2>4. InTurn'
    BY <2>2 DEF Inv, InTurn
  <2>5. ExtractOK'
    BY <2>1, <2>2 DEF Inv, ExtractOK, NothingSkipped, Written, mine, dirs
  <2>6. ToolsOK'
    BY <2>1, <2>2 DEF Inv, ToolsOK, config, dirs, ftp
  <2>7. LoadOK'
    BY <2>1, <2>2 DEF Inv, LoadOK, BackedUpIsLoaded, dirs, ftp, loader
  <2>. QED
    BY <2>3, <2>4, <2>5, <2>6, <2>7 DEF Inv
<1>2. CASE \E r \in Rows : CommitRow(r)
  BY <1>2, CommitRowInv
<1>3. CASE Extract
  BY <1>3, QueryInv, WriteFileInv, SaveIncInv DEF Extract
<1>4. CASE Upload
  BY <1>4, UploadListInv, PutInv, PutDoneInv DEF Upload
<1>5. CASE Download
  BY <1>5, DownloadListInv, GetInv, GetDoneInv DEF Download
<1>6. CASE Load
  BY <1>6, ListXmlInv, LoadRowsInv, CommitInv, MoveToBakInv DEF Load
<1>7. CASE Fault
  BY <1>7, CrashInv, OtherFaultInv, FetchFailsInv, GetCutInv DEF Fault
<1>. QED
  BY <1>1, <1>2, <1>3, <1>4, <1>5, <1>6, <1>7 DEF Next

\* The invariant holds in every state.
THEOREM InvCorrect == Spec => []Inv
BY InitInv, StepInv, PTL DEF Spec

(* The state has its types, and no file is lost between the directories,   *)
(* the server and the tools' records, whoever dies.                        *)
THEOREM TypeCorrect == Spec => []TypeOK
<1>1. Inv => TypeOK
  BY DEF Inv
<1>. QED
  BY <1>1, InvCorrect, PTL

(* However often the extraction dies between its files and its key, the    *)
(* saved key is never beyond what was written, but for rows committed late *)
(* and rows that a failed fetch left unread below the greatest key read.   *)
THEOREM NothingSkippedCorrect == Spec => []NothingSkipped
<1>1. Inv => NothingSkipped
  BY DEF Inv, ExtractOK
<1>. QED
  BY <1>1, InvCorrect, PTL

(* However often the loader dies, loses its session or is given a file     *)
(* again, a file in the backup directory has its rows in the table, unless *)
(* a commit of it failed unseen, and but for rows that its copy lacked.    *)
THEOREM BackedUpIsLoadedCorrect == Spec => []BackedUpIsLoaded
<1>1. Inv => BackedUpIsLoaded
  BY DEF Inv, LoadOK
<1>. QED
  BY <1>1, InvCorrect, PTL

-----------------------------------------------------------------------------
(* The web server.                                                         *)

HIDE CentreAssumption DEF copies
USE WebServerAssumption

Msg == [from : Client, n : Nat]
Job == [sock : FD, mesg : Msg]

ClientTypes ==
    /\ phase \in [Client -> {"new", "queued", "idle", "begun", "waiting", "gone"}]
    /\ asked \in [Client -> Nat]
    /\ got = [c \in Client |-> got[c]]
    /\ inq \in [Client -> Seq(Piece)]
    /\ hup \subseteq Client /\ tainted \subseteq Client
    /\ own \in [FD -> Client \cup {None}]
    /\ recvbuffer \in [FD -> Seq(Piece)]

QueueTypes ==
    /\ m_rq \in Seq(Job) /\ m_sq \in Seq(Job)
    /\ worker = [w \in Worker |-> worker[w]]
    /\ \A w \in Worker : worker[w].at = "busy" => worker[w].job \in Job
    /\ sendbuffer = [f \in FD |-> sendbuffer[f]]

Active(c) == phase[c] \in {"idle", "begun", "waiting"}

\* A number has one owner, a client one number.
Owners == /\ \A f, g \in FD : own[f] = own[g] /\ own[f] # None => f = g
          /\ \A f \in FD : own[f] # None => Active(own[f])

\* Of a client that is not connected nothing is left.
Fresh == \A c \in Client : ~Active(c) =>
            got[c] = <<>> /\ asked[c] = 0 /\ inq[c] = <<>> /\ c \notin hup /\ c \notin tainted

Untouched == Client \ tainted

\* A client has a reply to every request but the one it waits for, and an
\* "end" in the socket is the end of that one.
Counted ==
    /\ \A c \in Untouched : got[c] \in Seq(Msg)
    /\ \A c \in Untouched \ hup : Active(c) =>
          Len(got[c]) = IF phase[c] = "waiting" THEN asked[c] - 1 ELSE asked[c]
    /\ \A c \in Untouched : \A i \in 1..Len(inq[c]) :
          inq[c][i] = "end" => i = Len(inq[c]) /\ phase[c] = "waiting"

Clients == ClientTypes /\ Owners /\ Fresh /\ Counted /\ OwnReplies

\* The latest request of c; its reply carries the same.
Request(c) == [from |-> c, n |-> asked[c]]

Busy(w, f) == worker[w].at = "busy" /\ worker[w].job.sock = f

Asking(f) == \E i \in 1..Len(m_rq) : m_rq[i].sock = f
Served(f) == \E w \in Worker : Busy(w, f)
Replied(f) == \E i \in 1..Len(m_sq) : m_sq[i].sock = f

\* At most one thing is on its way for f.
Single(f) ==
    /\ \A i, j \in 1..Len(m_rq) : m_rq[i].sock = f /\ m_rq[j].sock = f => i = j
    /\ \A v, w \in Worker : Busy(v, f) /\ Busy(w, f) => v = w
    /\ \A i, j \in 1..Len(m_sq) : m_sq[i].sock = f /\ m_sq[j].sock = f => i = j
    /\ Len(sendbuffer[f]) <= 1
    /\ Asking(f) => ~Served(f) /\ ~Replied(f) /\ sendbuffer[f] = <<>>
    /\ Served(f) => ~Replied(f) /\ sendbuffer[f] = <<>>
    /\ Replied(f) => sendbuffer[f] = <<>>

\* It is the latest request of the owner of f.
Carries(f) ==
    /\ \A i \in 1..Len(m_rq) : m_rq[i].sock = f => m_rq[i].mesg = Request(own[f])
    /\ \A w \in Worker : Busy(w, f) => worker[w].job.mesg = Request(own[f])
    /\ \A i \in 1..Len(m_sq) : m_sq[i].sock = f => m_sq[i].mesg = Request(own[f])
    /\ sendbuffer[f] \in Seq(Msg)
    /\ \A i \in 1..Len(sendbuffer[f]) : sendbuffer[f][i] = Request(own[f])

HasEnd(c) == \E i \in 1..Len(inq[c]) : inq[c][i] = "end"

\* It is on its way only while the owner waits, and then no other is in the
\* socket.
Paced(f) ==
    /\ OnItsWay(f) => phase[own[f]] = "waiting"
    /\ HasEnd(own[f]) => ~OnItsWay(f)

\* The numbers whose owner began with nothing on its way.
Trusted == {f \in FD : own[f] # None /\ own[f] \notin tainted}

OneRequest == \A f \in Trusted : Single(f) /\ Carries(f) /\ Paced(f)

Web == Clients /\ QueueTypes /\ OneRequest

-----------------------------------------------------------------------------
\* What is on its way is in a queue, with a worker or in the buffer.
LEMMA WayEq == \A f : OnItsWay(f) <=> Asking(f) \/ Served(f) \/ Replied(f) \/ sendbuffer[f] # <<>>
  BY DEF OnItsWay, Asking, Served, Replied, Busy

\* An owner that is trusted is a client that is connected.
LEMMA TrustedOwner ==
  ASSUME Web, NEW f \in Trusted
  PROVE  /\ f \in FD /\ own[f] \in Client /\ own[f] # None /\ own[f] \in Untouched
         /\ Single(f) /\ Carries(f) /\ Paced(f) /\ Active(own[f])
  BY DEF Web, Clients, ClientTypes, Owners, Trusted, OneRequest, Untouched

\* The invariant holds at the start.
LEMMA InitWeb == WSInit => Web
<1>. SUFFICES ASSUME WSInit PROVE Web
  OBVIOUS
<1>1. ClientTypes
  BY DEF WSInit, ClientTypes, Empty
<1>2. QueueTypes
  <2>1. \A w \in Worker : worker[w].at # "busy"
    BY DEF WSInit, Started, Step
  <2>2. worker = [w \in Worker |-> worker[w]]
    BY DEF WSInit, Started
  <2>. QED
    BY <2>1, <2>2 DEF WSInit, QueueTypes, Empty
<1>3. Owners /\ Fresh /\ Counted /\ OwnReplies
  BY DEF WSInit, Owners, Fresh, Counted, OwnReplies, Active, Untouched
<1>4. OneRequest
  BY DEF WSInit, OneRequest, Trusted
<1>. QED
  BY <1>1, <1>2, <1>3, <1>4 DEF Web, Clients

\* Nothing is on its way for f after a step.
LEMMA NoWayNext ==
  ASSUME NEW f, sendbuffer'[f] \in Seq(Msg), ~OnItsWay(f)'
  PROVE  Single(f)' /\ Carries(f)' /\ Paced(f)'
<1>1. ~Asking(f)' /\ ~Served(f)' /\ ~Replied(f)' /\ sendbuffer'[f] = <<>>
  BY DEF OnItsWay, Asking, Served, Replied, Busy
<1>2. Single(f)'
  BY <1>1 DEF Single, Asking, Served, Replied
<1>3. Carries(f)'
  BY <1>1 DEF Carries, Asking, Served, Replied
<1>. QED
  BY <1>1, <1>2, <1>3 DEF Paced, OnItsWay, Asking, Served, Replied, Busy

\* A step of somebody else: what is on its way for f stays or disappears.
LEMMA LessWay ==
  ASSUME NEW f \in FD, NEW d \in Int, Single(f), Carries(f), Paced(f),
         own'[f] = own[f], asked'[own[f]] = asked[own[f]],
         phase'[own[f]] = phase[own[f]] \/ ~OnItsWay(f),
         HasEnd(own[f])' => HasEnd(own[f]) \/ ~OnItsWay(f),
         \A i \in 1..Len(m_rq') : m_rq'[i].sock = f =>
            i + d \in 1..Len(m_rq) /\ m_rq[i + d] = m_rq'[i],
         \A i \in 1..Len(m_sq') : m_sq'[i].sock = f =>
            i \in 1..Len(m_sq) /\ m_sq[i] = m_sq'[i],
         \A w \in Worker : Busy(w, f)' => Busy(w, f) /\ worker'[w].job = worker[w].job,
         sendbuffer'[f] \in {sendbuffer[f], <<>>}
  PROVE  Single(f)' /\ Carries(f)' /\ Paced(f)'
<1>1. /\ Asking(f)' => Asking(f)
      /\ Served(f)' => Served(f)
      /\ Replied(f)' => Replied(f)
  BY DEF Asking, Served, Replied
<1>2. Single(f)'
  <2>1. \A i, j \in 1..Len(m_rq') : m_rq'[i].sock = f /\ m_rq'[j].sock = f => i = j
    <3>. SUFFICES ASSUME NEW i \in 1..Len(m_rq'), NEW j \in 1..Len(m_rq'),
                         m_rq'[i].sock = f, m_rq'[j].sock = f
                  PROVE  i = j
      OBVIOUS
    <3>1. /\ i + d \in 1..Len(m_rq) /\ m_rq[i + d].sock = f
          /\ j + d \in 1..Len(m_rq) /\ m_rq[j + d].sock = f
      OBVIOUS
    <3>2. i + d = j + d
      BY <3>1 DEF Single
    <3>. QED
      BY <3>2
  <2>2. \A v, w \in Worker : Busy(v, f)' /\ Busy(w, f)' => v = w
    BY DEF Single
  <2>3. \A i, j \in 1..Len(m_sq') : m_sq'[i].sock = f /\ m_sq'[j].sock = f => i = j
    <3>. SUFFICES ASSUME NEW i \in 1..Len(m_sq'), NEW j \in 1..Len(m_sq'),
                         m_sq'[i].sock = f, m_sq'[j].sock = f
                  PROVE  i = j
      OBVIOUS
    <3>1. /\ i \in 1..Len(m_sq) /\ m_sq[i].sock = f
          /\ j \in 1..Len(m_sq) /\ m_sq[j].sock = f
      OBVIOUS
    <3>2. i = j
      BY <3>1 DEF Single
    <3>. QED
      BY <3>2
  <2>. QED
    BY <1>1, <2>1, <2>2, <2>3 DEF Single
<1>3. Request(own[f])' = Request(own[f])
  BY DEF Request
<1>4. Carries(f)'
  <2>1. \A i \in 1..Len(m_rq') : m_rq'[i].sock = f => m_rq'[i].mesg = Request(own[f])
    BY DEF Carries
  <2>2. \A w \in Worker : Busy(w, f)' => worker'[w].job.mesg = Request(own[f])
    BY DEF Carries
  <2>3. \A i \in 1..Len(m_sq') : m_sq'[i].sock = f => m_sq'[i].mesg = Request(own[f])
    BY DEF Carries
  <2>4. /\ sendbuffer'[f] \in Seq(Msg)
        /\ \A i \in 1..Len(sendbuffer'[f]) : sendbuffer'[f][i] = Request(own[f])
    <3>1. CASE sendbuffer'[f] = sendbuffer[f]
      BY <3>1 DEF Carries
    <3>2. CASE sendbuffer'[f] = <<>>
      BY <3>2
    <3>. QED
      BY <3>1, <3>2
  <2>. QED
    BY <1>3, <2>1, <2>2, <2>3, <2>4 DEF Carries
<1>5. OnItsWay(f)' => OnItsWay(f)
  <2>1. OnItsWay(f)' <=> Asking(f)' \/ Served(f)' \/ Replied(f)' \/ sendbuffer'[f] # <<>>
    BY DEF OnItsWay, Asking, Served, Replied, Busy
  <2>. QED
    BY <1>1, <2>1, WayEq
<1>6. Paced(f)'
  BY <1>5 DEF Paced
<1>. QED
  BY <1>2, <1>4, <1>6

\* The same, when the queues and the workers' jobs stay what they are.
LEMMA SameWay ==
  ASSUME NEW f \in FD, Single(f), Carries(f), Paced(f),
         own'[f] = own[f], asked'[own[f]] = asked[own[f]],
         phase'[own[f]] = phase[own[f]] \/ ~OnItsWay(f),
         HasEnd(own[f])' => HasEnd(own[f]) \/ ~OnItsWay(f),
         UNCHANGED <<m_rq, m_sq>>, sendbuffer'[f] = sendbuffer[f],
         \A w \in Worker : worker'[w] = worker[w] \/ worker'[w].at # "busy"
  PROVE  Single(f)' /\ Carries(f)' /\ Paced(f)'
<1>1. \A i \in 1..Len(m_rq') : i + 0 \in 1..Len(m_rq) /\ m_rq[i + 0] = m_rq'[i]
  OBVIOUS
<1>2. \A w \in Worker : Busy(w, f)' => Busy(w, f) /\ worker'[w].job = worker[w].job
  BY DEF Busy
<1>. QED
  BY <1>1, <1>2, LessWay, 0 \in Int

\* The threads go to sleep, wake up and end.
LEMMA ThreadsWeb ==
  ASSUME Web, UNCHANGED <<client, own, clientmap, m_rq, m_sq, tainted>>,
         worker' = [w \in Worker |-> worker'[w]],
         \A w \in Worker : worker'[w] = worker[w] \/ worker'[w].at # "busy"
  PROVE  Web'
<1>1. ClientTypes'
  BY DEF Web, Clients, ClientTypes, client, clientmap
<1>2. Owners' /\ Fresh' /\ Counted' /\ OwnReplies'
  BY DEF Web, Clients, Owners, Fresh, Counted, OwnReplies, Active, Untouched, client
<1>3. QueueTypes'
  BY DEF Web, QueueTypes, clientmap
<1>4. OneRequest'
  <2>. SUFFICES ASSUME NEW f \in Trusted PROVE Single(f)' /\ Carries(f)' /\ Paced(f)'
    BY DEF OneRequest, Trusted
  <2>1. HasEnd(own[f])' => HasEnd(own[f])
    BY DEF HasEnd, client
  <2>. QED
    BY <2>1, TrustedOwner, SameWay DEF client, clientmap
<1>. QED
  BY <1>1, <1>2, <1>3, <1>4 DEF Web, Clients

\* A client that connects is not yet anybody's owner.
LEMMA ConnectWeb ==
  ASSUME Web, NEW c \in Client, Connect(c)
  PROVE  Web'
<1>1. ~Active(c) /\ \A f \in FD : own[f] # c
  BY DEF Connect, Active, Web, Clients, Owners, ClientTypes
<1>2. \A b \in Client : (Active(b)' <=> Active(b)) /\ (b # c => phase'[b] = phase[b])
  BY <1>1 DEF Connect, Active, Web, Clients, ClientTypes
<1>3. ClientTypes'
  BY DEF Web, Clients, ClientTypes, Connect, kernel, clientmap
<1>4. Owners'
  BY <1>2 DEF Web, Clients, ClientTypes, Owners, Connect, kernel
<1>5. Fresh'
  BY <1>2 DEF Web, Clients, Fresh, Connect
<1>6. Counted' /\ OwnReplies'
  BY <1>1, <1>2 DEF Web, Clients, Counted, Fresh, OwnReplies, Untouched, Connect
<1>7. QueueTypes'
  BY DEF Web, QueueTypes, Connect, clientmap, threads
<1>8. OneRequest'
  <2>. SUFFICES ASSUME NEW f \in Trusted PROVE Single(f)' /\ Carries(f)' /\ Paced(f)'
    BY DEF OneRequest, Trusted, Connect, kernel
  <2>1. HasEnd(own[f])' => HasEnd(own[f])
    BY DEF HasEnd, Connect, kernel
  <2>. QED
    BY <1>1, <1>2, <2>1, TrustedOwner, SameWay DEF Connect, kernel, clientmap, threads
<1>. QED
  BY <1>3, <1>4, <1>5, <1>6, <1>7, <1>8 DEF Web, Clients

\* A client closes its end.
LEMMA HangUpWeb ==
  ASSUME Web, NEW c \in Client, HangUp(c)
  PROVE  Web'
<1>1. ClientTypes'
  BY DEF Web, Clients, ClientTypes, HangUp, kernel, clientmap
<1>2. Owners' /\ Counted' /\ OwnReplies'
  BY DEF Web, Clients, Owners, Counted, OwnReplies, Untouched, HangUp, Active, kernel
<1>3. Fresh'
  BY DEF Web, Clients, Fresh, HangUp, Active
<1>4. QueueTypes'
  BY DEF Web, QueueTypes, HangUp, clientmap, threads
<1>5. OneRequest'
  <2>. SUFFICES ASSUME NEW f \in Trusted PROVE Single(f)' /\ Carries(f)' /\ Paced(f)'
    BY DEF OneRequest, Trusted, HangUp, kernel
  <2>1. HasEnd(own[f])' => HasEnd(own[f])
    BY DEF HasEnd, HangUp, kernel
  <2>. QED
    BY <2>1, TrustedOwner, SameWay DEF HangUp, kernel, clientmap, threads
<1>. QED
  BY <1>1, <1>2, <1>3, <1>4, <1>5 DEF Web, Clients

\* A client asks: nothing is on its way for it.
LEMMA SendPieceWeb ==
  ASSUME Web, NEW c \in Client, NEW p \in Piece, SendPiece(c, p)
  PROVE  Web'
<1>1. /\ phase[c] \in {"idle", "begun"} /\ c \notin hup
      /\ phase' = [phase EXCEPT ![c] = IF p = "end" THEN "waiting" ELSE "begun"]
      /\ inq' = [inq EXCEPT ![c] = Append(@, p)]
      /\ asked' = IF p = "end" THEN [asked EXCEPT ![c] = @ + 1] ELSE asked
      /\ UNCHANGED <<got, hup, own, recvbuffer, sendbuffer, m_rq, m_sq, worker, tainted>>
  BY DEF SendPiece, kernel, clientmap, threads
<1>2. Active(c) /\ \A b \in Client : Active(b)' <=> Active(b)
  BY <1>1 DEF Active, Web, Clients, ClientTypes
<1>3. ClientTypes'
  BY <1>1 DEF Web, Clients, ClientTypes
<1>4. Owners'
  BY <1>1, <1>2 DEF Web, Clients, ClientTypes, Owners
<1>5. Fresh'
  BY <1>1, <1>2 DEF Web, Clients, ClientTypes, Fresh
<1>6. OwnReplies'
  BY <1>1 DEF Web, Clients, OwnReplies
<1>7. Counted'
  <2>. SUFFICES ASSUME NEW b \in Untouched
                PROVE  /\ got[b] \in Seq(Msg)
                       /\ b \notin hup /\ Active(b) =>
                            Len(got[b]) = IF phase'[b] = "waiting" THEN asked'[b] - 1 ELSE asked'[b]
                       /\ \A i \in 1..Len(inq'[b]) :
                            inq'[b][i] = "end" => i = Len(inq'[b]) /\ phase'[b] = "waiting"
    BY <1>1, <1>2 DEF Counted, Untouched
  <2>0. b \in Client /\ inq[b] \in Seq(Piece) /\ asked[b] \in Nat
    BY DEF Untouched, Web, Clients, ClientTypes
  <2>1. CASE b # c
    BY <1>1, <2>0, <2>1 DEF Web, Clients, ClientTypes, Counted
  <2>2. CASE b = c
    <3>1. \A i \in 1..Len(inq[c]) : inq[c][i] # "end"
      BY <1>1, <2>2 DEF Web, Clients, Counted
    <3>2. inq'[c] = Append(inq[c], p)
      BY <1>1 DEF Web, Clients, ClientTypes
    <3>3. \A i \in 1..Len(inq'[c]) : inq'[c][i] = "end" => i = Len(inq'[c]) /\ p = "end"
      BY <2>0, <2>2, <3>1, <3>2
    <3>4. got[c] \in Seq(Msg) /\ Len(got[c]) = asked[c]
      BY <1>1, <1>2, <2>2 DEF Web, Clients, Counted
    <3>5. /\ phase'[c] = IF p = "end" THEN "waiting" ELSE "begun"
          /\ asked'[c] = IF p = "end" THEN asked[c] + 1 ELSE asked[c]
      BY <1>1 DEF Web, Clients, ClientTypes
    <3>. QED
      BY <2>0, <2>2, <3>3, <3>4, <3>5
  <2>. QED
    BY <2>1, <2>2
<1>8. QueueTypes'
  BY <1>1 DEF Web, QueueTypes
<1>9. OneRequest'
  <2>. SUFFICES ASSUME NEW f \in Trusted PROVE Single(f)' /\ Carries(f)' /\ Paced(f)'
    BY <1>1 DEF OneRequest, Trusted
  <2>1. CASE own[f] = c
    <3>1. ~OnItsWay(f) /\ sendbuffer[f] \in Seq(Msg)
      BY <1>1, <2>1, TrustedOwner DEF Paced, Carries
    <3>2. ~OnItsWay(f)' /\ sendbuffer'[f] \in Seq(Msg)
      BY <1>1, <3>1 DEF OnItsWay
    <3>. QED
      BY <3>2, NoWayNext
  <2>2. CASE own[f] # c
    <3>1. /\ phase'[own[f]] = phase[own[f]] /\ asked'[own[f]] = asked[own[f]]
          /\ inq'[own[f]] = inq[own[f]]
      BY <1>1, <2>2, TrustedOwner DEF Web, Clients, ClientTypes
    <3>2. HasEnd(own[f])' => HasEnd(own[f])
      BY <1>1, <3>1 DEF HasEnd
    <3>. QED
      BY <1>1, <3>1, <3>2, TrustedOwner, SameWay
  <2>. QED
    BY <2>1, <2>2
<1>. QED
  BY <1>3, <1>4, <1>5, <1>6, <1>7, <1>8, <1>9 DEF Web, Clients

\* A client gets a number: it is tainted unless nothing is on its way for the number.
LEMMA AcceptWeb ==
  ASSUME Web, NEW c \in Client, Accept(c)
  PROVE  Web'
<1>1. PICK f \in FD : /\ own[f] = None
                      /\ own' = [own EXCEPT ![f] = c]
                      /\ tainted' = IF OnItsWay(f) THEN tainted \cup {c} ELSE tainted
  BY DEF Accept
<1>2. /\ phase[c] = "queued" /\ phase' = [phase EXCEPT ![c] = "idle"]
      /\ UNCHANGED <<asked, got, inq, hup, recvbuffer, sendbuffer, m_rq, m_sq, worker>>
  BY DEF Accept, clientmap, threads
<1>3. /\ ~Active(c) /\ Active(c)' /\ \A b \in Client \ {c} : phase'[b] = phase[b]
      /\ \A b \in Client \ {c} : Active(b)' <=> Active(b)
  BY <1>2 DEF Active, Web, Clients, ClientTypes
<1>4. /\ got[c] = <<>> /\ asked[c] = 0 /\ inq[c] = <<>> /\ c \notin hup /\ c \notin tainted
      /\ phase'[c] = "idle"
  BY <1>2, <1>3 DEF Web, Clients, ClientTypes, Fresh
<1>5. /\ own'[f] = c
      /\ \A g \in FD : g # f => own'[g] = own[g] /\ own[g] # c
  BY <1>1, <1>3 DEF Web, Clients, ClientTypes, Owners
<1>6. ClientTypes'
  BY <1>1, <1>2 DEF Web, Clients, ClientTypes
<1>7. Owners'
  BY <1>3, <1>5 DEF Web, Clients, ClientTypes, Owners
<1>8. Fresh'
  BY <1>1, <1>2, <1>3 DEF Web, Clients, Fresh
<1>9. Counted'
  BY <1>1, <1>2, <1>3, <1>4 DEF Web, Clients, Counted, Untouched
<1>10. OwnReplies'
  BY <1>1, <1>2 DEF Web, Clients, OwnReplies
<1>11. QueueTypes'
  BY <1>2 DEF Web, QueueTypes
<1>12. OneRequest'
  <2>. SUFFICES ASSUME NEW g \in FD, own'[g] # None, own'[g] \notin tainted'
                PROVE  Single(g)' /\ Carries(g)' /\ Paced(g)'
    BY DEF OneRequest, Trusted
  <2>1. CASE g = f
    <3>1. ~OnItsWay(f)
      BY <1>1, <1>5, <2>1
    <3>2. ~OnItsWay(f)'
      BY <1>2, <3>1 DEF OnItsWay
    <3>3. sendbuffer[f] = <<>>
      BY <3>1, WayEq
    <3>4. sendbuffer'[f] = <<>> /\ <<>> \in Seq(Msg)
      BY <1>2, <3>3
    <3>. QED
      BY <2>1, <3>2, <3>4, NoWayNext
  <2>2. CASE g # f
    <3>1. g \in Trusted /\ own[g] # c /\ own'[g] = own[g]
      BY <1>1, <1>5, <2>2 DEF Trusted
    <3>2. HasEnd(own[g])' => HasEnd(own[g])
      BY <1>2, <3>1 DEF HasEnd
    <3>. QED
      BY <1>2, <1>3, <3>1, <3>2, TrustedOwner, SameWay
  <2>. QED
    BY <2>1, <2>2
<1>. QED
  BY <1>6, <1>7, <1>8, <1>9, <1>10, <1>11, <1>12 DEF Web, Clients

\* A client is disconnected.
LEMMA CloseWeb ==
  ASSUME Web, NEW f \in FD, own[f] # None, CloseClient(f), UNCHANGED <<m_rq, m_sq, worker>>
  PROVE  Web'
<1>0. own[f] \in Client
  BY DEF Web, Clients, ClientTypes
<1>. SUFFICES ASSUME NEW c \in Client, c = own[f]
              PROVE  Web'
  BY <1>0
<1>1. \A g \in FD : own[g] = c => g = f
  BY DEF Web, Clients, ClientTypes, Owners
<1>2. /\ phase' = [b \in Client |-> IF b = c THEN "gone" ELSE phase[b]]
      /\ asked' = [b \in Client |-> IF b = c THEN 0 ELSE asked[b]]
      /\ got' = [b \in Client |-> IF b = c THEN <<>> ELSE got[b]]
      /\ inq' = [b \in Client |-> IF b = c THEN <<>> ELSE inq[b]]
      /\ hup' = hup \ {c} /\ tainted' = tainted \ {c}
  BY DEF CloseClient, Leave
<1>3. /\ own' = [own EXCEPT ![f] = None]
      /\ recvbuffer' = [recvbuffer EXCEPT ![f] = <<>>]
      /\ sendbuffer' = [sendbuffer EXCEPT ![f] = <<>>]
  BY DEF CloseClient
<1>4. /\ ~Active(c)'
      /\ \A b \in Client : b # c => phase'[b] = phase[b] /\ (Active(b)' <=> Active(b))
  <2>1. phase'[c] = "gone" /\ \A b \in Client : b # c => phase'[b] = phase[b]
    BY <1>1, <1>2
  <2>2. ~Active(c)'
    BY <2>1 DEF Active
  <2>3. ASSUME NEW b \in Client, b # c
        PROVE  phase'[b] = phase[b] /\ (Active(b)' <=> Active(b))
    BY <2>1, <2>3 DEF Active
  <2>. QED
    BY <2>2, <2>3
<1>5. own'[f] = None /\ \A g \in FD : g # f => own'[g] = own[g] /\ own[g] # c
  BY <1>1, <1>3 DEF Web, Clients, ClientTypes
<1>6. ClientTypes'
  BY <1>2, <1>3 DEF Web, Clients, ClientTypes
<1>7. Owners'
  <2>1. \A g \in FD : own'[g] # None => g # f /\ own[g] = own'[g] /\ own[g] \in Client /\ own[g] # c
    BY <1>5 DEF Web, Clients, ClientTypes
  <2>2. \A g \in FD : own'[g] # None => Active(own[g])
    BY <2>1 DEF Web, Clients, Owners
  <2>3. \A g \in FD : own'[g] # None => phase'[own'[g]] \in {"idle", "begun", "waiting"}
    BY <1>4, <2>1, <2>2 DEF Active
  <2>4. \A g, h \in FD : own'[g] = own'[h] /\ own'[g] # None => g = h
    BY <2>1 DEF Web, Clients, Owners
  <2>. QED
    BY <2>3, <2>4 DEF Owners, Active
<1>8. Fresh'
  BY <1>2, <1>4 DEF Web, Clients, Fresh
<1>9. Counted'
  <2>. SUFFICES ASSUME NEW b \in Client, b \notin tainted'
                PROVE  /\ got'[b] \in Seq(Msg)
                       /\ b \notin hup' /\ Active(b)' =>
                            Len(got'[b]) = IF phase'[b] = "waiting" THEN asked'[b] - 1 ELSE asked'[b]
                       /\ \A i \in 1..Len(inq'[b]) :
                            inq'[b][i] = "end" => i = Len(inq'[b]) /\ phase'[b] = "waiting"
    BY DEF Counted, Untouched
  <2>1. CASE b = c
    BY <1>2, <1>4, <2>1
  <2>2. CASE b # c
    <3>1. /\ got'[b] = got[b] /\ asked'[b] = asked[b] /\ inq'[b] = inq[b]
          /\ b \in Untouched /\ (b \in hup' <=> b \in hup)
      BY <1>2, <2>2 DEF Untouched
    <3>. QED
      BY <1>4, <2>2, <3>1 DEF Web, Clients, Counted
  <2>. QED
    BY <2>1, <2>2
<1>10. OwnReplies'
  <2>. SUFFICES ASSUME NEW b \in Client, b \notin tainted', NEW i \in 1..Len(got'[b])
                PROVE  got'[b][i] = [from |-> b, n |-> i]
    BY DEF OwnReplies
  <2>1. CASE b = c
    BY <1>2, <2>1
  <2>2. CASE b # c
    <3>1. got'[b] = got[b] /\ b \notin tainted
      BY <1>2, <2>2
    <3>. QED
      BY <3>1 DEF Web, Clients, OwnReplies
  <2>. QED
    BY <2>1, <2>2
<1>11. QueueTypes'
  BY <1>3 DEF Web, QueueTypes
<1>12. OneRequest'
  <2>. SUFFICES ASSUME NEW g \in FD, own'[g] # None, own'[g] \notin tainted'
                PROVE  Single(g)' /\ Carries(g)' /\ Paced(g)'
    BY DEF OneRequest, Trusted
  <2>1. g # f /\ own'[g] = own[g] /\ own[g] # c
    BY <1>5
  <2>2. g \in Trusted
    BY <1>2, <2>1 DEF Trusted
  <2>3. /\ phase'[own[g]] = phase[own[g]] /\ asked'[own[g]] = asked[own[g]]
        /\ inq'[own[g]] = inq[own[g]] /\ sendbuffer'[g] = sendbuffer[g]
    BY <1>2, <1>3, <2>1, <2>2, TrustedOwner DEF Web, QueueTypes
  <2>4. HasEnd(own[g])' => HasEnd(own[g])
    BY <2>1, <2>3 DEF HasEnd
  <2>. QED
    BY <2>1, <2>2, <2>3, <2>4, TrustedOwner, SameWay
<1>. QED
  BY <1>6, <1>7, <1>8, <1>9, <1>10, <1>11, <1>12 DEF Web, Clients

\* A client that has closed is disconnected.
LEMMA DisconnectedWeb ==
  ASSUME Web, NEW f \in FD, Disconnected(f)
  PROVE  Web'
<1>1. own[f] # None /\ CloseClient(f) /\ UNCHANGED <<m_rq, m_sq, worker>>
  BY DEF Disconnected, threads, Web, Clients, ClientTypes
<1>. QED
  BY <1>1, CloseWeb

\* A piece is read: what this changes of the clients.
LEMMA ReadClients ==
  ASSUME Web, NEW f \in FD, own[f] # None, NEW b \in Seq(Piece),
         recvbuffer' = [recvbuffer EXCEPT ![f] = b],
         inq' = [inq EXCEPT ![own[f]] = <<>>],
         UNCHANGED <<phase, asked, got, hup, own, sendbuffer, tainted>>
  PROVE  /\ Clients'
         /\ \A g \in FD : own[g] # None /\ HasEnd(own[g])' => HasEnd(own[g])
         /\ ~HasEnd(own[f])'
<1>1. ClientTypes'
  BY DEF Web, Clients, ClientTypes
<1>2. Owners' /\ OwnReplies'
  BY DEF Web, Clients, Owners, OwnReplies, Active
<1>3. /\ inq'[own[f]] = <<>>
      /\ \A c \in Client : inq'[c] = inq[c] \/ inq'[c] = <<>>
  BY DEF Web, Clients, ClientTypes
<1>4. Fresh'
  BY <1>3 DEF Web, Clients, Fresh, Active
<1>5. Counted'
  <2>1. \A c \in Untouched : \A i \in 1..Len(inq'[c]) :
          inq'[c][i] = "end" => i = Len(inq'[c]) /\ phase[c] = "waiting"
    BY <1>3 DEF Web, Clients, Counted, Untouched
  <2>. QED
    BY <2>1 DEF Web, Clients, Counted, Untouched, Active
<1>6. \A c \in Client : (\E i \in 1..Len(inq'[c]) : inq'[c][i] = "end") => HasEnd(c)
  BY <1>3 DEF HasEnd
<1>7. /\ \A g \in FD : own[g] # None /\ HasEnd(own[g])' => HasEnd(own[g])
      /\ ~HasEnd(own[f])'
  BY <1>3, <1>6 DEF HasEnd, Web, Clients, ClientTypes
<1>. QED
  BY <1>1, <1>2, <1>4, <1>5, <1>7 DEF Clients

\* A whole request is queued.
LEMMA InrqWeb ==
  ASSUME Web, NEW f \in FD, own[f] # None,
         Inrq([sock |-> f, mesg |-> Request(own[f])]),
         HasEnd(own[f]),
         recvbuffer' = [recvbuffer EXCEPT ![f] = <<>>],
         inq' = [inq EXCEPT ![own[f]] = <<>>],
         UNCHANGED <<phase, asked, got, hup, own, sendbuffer, tainted, m_sq>>
  PROVE  Web'
<1>. DEFINE q == [sock |-> f, mesg |-> Request(own[f])]
<1>1. /\ m_rq' = Append(m_rq, q)
      /\ \A w \in Worker : worker'[w] = worker[w] \/ worker'[w] = Step("woken")
      /\ worker' = [w \in Worker |-> worker'[w]]
  BY DEF Inrq, Web, QueueTypes
<1>2. \A w \in Worker : worker'[w].at = "busy" => worker'[w] = worker[w]
  BY <1>1 DEF Step
<1>3. q \in Job
  BY DEF Job, Msg, Request, Web, Clients, ClientTypes
<1>4. QueueTypes'
  BY <1>1, <1>2, <1>3 DEF Web, QueueTypes
<1>5. \A g \in FD, w \in Worker : Busy(w, g)' => Busy(w, g) /\ worker'[w].job = worker[w].job
  BY <1>2 DEF Busy
<1>6. /\ Clients'
      /\ \A g \in FD : own[g] # None /\ HasEnd(own[g])' => HasEnd(own[g])
      /\ ~HasEnd(own[f])'
  BY ReadClients, <<>> \in Seq(Piece)
<1>7. m_rq \in Seq(Job)
  BY DEF Web, QueueTypes
<1>8. OneRequest'
  <2>. SUFFICES ASSUME NEW g \in Trusted PROVE Single(g)' /\ Carries(g)' /\ Paced(g)'
    BY DEF OneRequest, Trusted
  <2>1. CASE g # f
    <3>1. \A i \in 1..Len(m_rq') : m_rq'[i].sock = g =>
            i + 0 \in 1..Len(m_rq) /\ m_rq[i + 0] = m_rq'[i]
      BY <1>1, <1>7, <2>1
    <3>. QED
      BY <1>5, <1>6, <2>1, <3>1, TrustedOwner, LessWay, 0 \in Int
  <2>2. CASE g = f
    <3>1. phase[own[f]] = "waiting" /\ ~OnItsWay(f)
      BY <2>2, TrustedOwner DEF Paced, Web, Clients, Counted, HasEnd
    <3>2. /\ ~Asking(f) /\ ~Served(f) /\ ~Replied(f) /\ sendbuffer[f] = <<>>
      BY <3>1, WayEq
    <3>3. /\ ~Served(f)' /\ ~Replied(f)' /\ sendbuffer'[f] = <<>>
      BY <1>5, <3>2 DEF Served, Replied
    <3>4. \A i \in 1..Len(m_rq') : m_rq'[i].sock = f => i = Len(m_rq) + 1 /\ m_rq'[i] = q
      BY <1>1, <1>7, <3>2 DEF Asking
    <3>5. Single(f)'
      BY <3>3, <3>4 DEF Single, Served, Replied
    <3>6. Request(own[f])' = Request(own[f])
      BY DEF Request
    <3>7. Carries(f)'
      BY <3>3, <3>4, <3>6 DEF Carries, Served, Replied
    <3>. QED
      BY <1>6, <2>2, <3>1, <3>5, <3>7 DEF Paced
  <2>. QED
    BY <2>1, <2>2
<1>. QED
  BY <1>4, <1>6, <1>8 DEF Web

\* What was read is a request, too long, or kept.
LEMMA ReceiveWeb ==
  ASSUME Web, NEW f \in FD, Receive(f)
  PROVE  Web'
<1>. DEFINE c == own[f]
            full == recvbuffer[f] \o inq[c]
<1>1. c # None /\ c \in Client /\ inq[c] # <<>> /\ inq[c] \in Seq(Piece)
      /\ full \in Seq(Piece)
  BY DEF Receive, Web, Clients, ClientTypes
<1>2. CASE /\ Last(full) = "end"
           /\ Inrq([sock |-> f, mesg |-> Request(c)])
           /\ recvbuffer' = [recvbuffer EXCEPT ![f] = <<>>]
           /\ inq' = [inq EXCEPT ![c] = <<>>]
           /\ UNCHANGED <<phase, asked, got, hup, own, sendbuffer, tainted, m_sq>>
  <2>1. Len(inq[c]) \in 1..Len(inq[c]) /\ inq[c][Len(inq[c])] = "end"
    BY <1>1, <1>2 DEF Last, Web, Clients, ClientTypes
  <2>2. HasEnd(c)
    BY <2>1 DEF HasEnd
  <2>. QED
    BY <1>1, <1>2, <2>2, InrqWeb
<1>3. CASE CloseClient(f) /\ UNCHANGED <<m_rq, m_sq, worker>>
  BY <1>1, <1>3, CloseWeb
<1>4. CASE /\ recvbuffer' = [recvbuffer EXCEPT ![f] = full]
           /\ inq' = [inq EXCEPT ![c] = <<>>]
           /\ UNCHANGED <<phase, asked, got, hup, own, sendbuffer, tainted, m_rq, m_sq, worker>>
  <2>1. Clients' /\ \A g \in FD : own[g] # None /\ HasEnd(own[g])' => HasEnd(own[g])
    BY <1>1, <1>4, ReadClients
  <2>2. QueueTypes'
    BY <1>4 DEF Web, QueueTypes
  <2>3. OneRequest'
    BY <1>4, <2>1, TrustedOwner, SameWay DEF OneRequest, Trusted
  <2>. QED
    BY <2>1, <2>2, <2>3 DEF Web
<1>. QED
  BY <1>2, <1>3, <1>4 DEF Receive, Request

\* The request goes from the queue to a worker.
LEMMA TakeWeb ==
  ASSUME Web, NEW w \in Worker, Take(w)
  PROVE  Web'
<1>. DEFINE j == Head(m_rq)
<1>1. /\ m_rq # <<>> /\ m_rq' = Tail(m_rq) /\ m_rq \in Seq(Job)
      /\ worker' = [worker EXCEPT ![w] = [at |-> "busy", job |-> j]]
      /\ worker[w].at # "busy"
      /\ UNCHANGED <<phase, asked, got, inq, hup, own, recvbuffer, sendbuffer, m_sq, tainted>>
  BY DEF Take, Become, client, kernel, clientmap, Web, QueueTypes
<1>2. /\ Len(m_rq) \in Nat \ {0} /\ j = m_rq[1] /\ j \in Job
      /\ Len(m_rq') = Len(m_rq) - 1
      /\ \A i \in 1..Len(m_rq') : m_rq'[i] = m_rq[i + 1] /\ i + 1 \in 1..Len(m_rq)
  BY <1>1
<1>3. /\ \A v \in Worker : v # w => worker'[v] = worker[v]
      /\ worker'[w].at = "busy" /\ worker'[w].job = j
      /\ worker' = [v \in Worker |-> worker'[v]]
  BY <1>1 DEF Web, QueueTypes
<1>4. Clients'
  BY <1>1 DEF Web, Clients, ClientTypes, Owners, Fresh, Counted, OwnReplies, Active, Untouched
<1>5. QueueTypes'
  <2>1. m_rq' \in Seq(Job)
    BY <1>1
  <2>2. \A v \in Worker : worker'[v].at = "busy" => worker'[v].job \in Job
    BY <1>2, <1>3 DEF Web, QueueTypes
  <2>. QED
    BY <1>1, <1>3, <2>1, <2>2 DEF Web, QueueTypes
<1>6. OneRequest'
  <2>. SUFFICES ASSUME NEW f \in Trusted PROVE Single(f)' /\ Carries(f)' /\ Paced(f)'
    BY <1>1 DEF OneRequest, Trusted
  <2>0. HasEnd(own[f])' => HasEnd(own[f])
    BY <1>1 DEF HasEnd
  <2>1. CASE j.sock # f
    <3>1. \A v \in Worker : Busy(v, f)' => Busy(v, f) /\ worker'[v].job = worker[v].job
      BY <1>3, <2>1 DEF Busy
    <3>2. 1 \in Int
      OBVIOUS
    <3>4. f \in FD /\ Single(f) /\ Carries(f) /\ Paced(f)
      BY TrustedOwner
    <3>5. /\ own'[f] = own[f] /\ asked'[own[f]] = asked[own[f]]
          /\ phase'[own[f]] = phase[own[f]] /\ sendbuffer'[f] = sendbuffer[f]
          /\ m_sq' = m_sq
      BY <1>1
    <3>. QED
      BY <1>2, <2>0, <3>1, <3>2, <3>4, <3>5, LessWay
  <2>2. CASE j.sock = f
    <3>0. Asking(f) /\ Single(f) /\ Carries(f) /\ Paced(f)
      BY <1>2, <2>2, TrustedOwner DEF Asking
    <3>1. /\ ~Served(f) /\ ~Replied(f) /\ sendbuffer[f] = <<>>
          /\ j.mesg = Request(own[f])
      BY <1>2, <2>2, <3>0 DEF Single, Carries
    <3>2. \A i \in 1..Len(m_rq') : m_rq'[i].sock # f
      BY <1>2, <2>2, <3>0 DEF Single
    <3>3. /\ ~Replied(f)' /\ sendbuffer'[f] = <<>>
          /\ \A v \in Worker : Busy(v, f)' <=> v = w
      BY <1>1, <1>3, <2>2, <3>1 DEF Replied, Served, Busy
    <3>4. Single(f)'
      BY <3>2, <3>3 DEF Single, Asking, Replied
    <3>5. Request(own[f])' = Request(own[f])
      BY <1>1 DEF Request
    <3>6. Carries(f)'
      BY <1>3, <3>1, <3>2, <3>3, <3>5 DEF Carries, Replied
    <3>7. phase[own[f]] = "waiting" /\ ~HasEnd(own[f])
      BY <3>0, WayEq DEF Paced
    <3>. QED
      BY <1>1, <2>0, <3>4, <3>6, <3>7 DEF Paced
  <2>. QED
    BY <2>1, <2>2
<1>. QED
  BY <1>4, <1>5, <1>6 DEF Web

\* The reply goes from the worker to the queue.
LEMMA AnswerWeb ==
  ASSUME Web, NEW w \in Worker, Answer(w)
  PROVE  Web'
<1>. DEFINE j == worker[w].job
<1>1. /\ m_sq' = Append(m_sq, j) /\ m_sq \in Seq(Job)
      /\ worker' = [worker EXCEPT ![w] = Step("told")]
      /\ worker[w].at = "busy" /\ j \in Job
      /\ UNCHANGED <<phase, asked, got, inq, hup, own, recvbuffer, sendbuffer, m_rq, tainted>>
  BY DEF Answer, Become, client, kernel, clientmap, Web, QueueTypes
<1>2. \A i \in 1..Len(m_sq') : m_sq'[i] = IF i = Len(m_sq) + 1 THEN j ELSE m_sq[i]
  BY <1>1
<1>3. /\ \A v \in Worker : v # w => worker'[v] = worker[v]
      /\ worker'[w].at # "busy"
      /\ worker' = [v \in Worker |-> worker'[v]]
  BY <1>1 DEF Web, QueueTypes, Step
<1>4. Clients'
  BY <1>1 DEF Web, Clients, ClientTypes, Owners, Fresh, Counted, OwnReplies, Active, Untouched
<1>5. QueueTypes'
  <2>1. m_sq' \in Seq(Job)
    BY <1>1
  <2>2. \A v \in Worker : worker'[v].at = "busy" => worker'[v].job \in Job
    BY <1>3 DEF Web, QueueTypes
  <2>. QED
    BY <1>1, <1>3, <2>1, <2>2 DEF Web, QueueTypes
<1>6. OneRequest'
  <2>. SUFFICES ASSUME NEW f \in Trusted PROVE Single(f)' /\ Carries(f)' /\ Paced(f)'
    BY <1>1 DEF OneRequest, Trusted
  <2>0. HasEnd(own[f])' => HasEnd(own[f])
    BY <1>1 DEF HasEnd
  <2>1. CASE j.sock # f
    <3>1. \A v \in Worker : Busy(v, f)' => Busy(v, f) /\ worker'[v].job = worker[v].job
      BY <1>3 DEF Busy
    <3>2. \A i \in 1..Len(m_sq') : m_sq'[i].sock = f => i \in 1..Len(m_sq) /\ m_sq[i] = m_sq'[i]
      BY <1>1, <2>1
    <3>3. \A i \in 1..Len(m_rq') : i + 0 \in 1..Len(m_rq) /\ m_rq[i + 0] = m_rq'[i]
      BY <1>1
    <3>4. f \in FD /\ Single(f) /\ Carries(f) /\ Paced(f)
      BY TrustedOwner
    <3>5. /\ own'[f] = own[f] /\ asked'[own[f]] = asked[own[f]]
          /\ phase'[own[f]] = phase[own[f]] /\ sendbuffer'[f] = sendbuffer[f]
      BY <1>1
    <3>6. 0 \in Int
      OBVIOUS
    <3>. QED
      BY <2>0, <3>1, <3>2, <3>3, <3>4, <3>5, <3>6, LessWay
  <2>2. CASE j.sock = f
    <3>0. Busy(w, f) /\ Served(f) /\ Single(f) /\ Carries(f) /\ Paced(f)
      BY <1>1, <2>2, TrustedOwner DEF Served, Busy
    <3>1. /\ ~Asking(f) /\ ~Replied(f) /\ sendbuffer[f] = <<>>
          /\ j.mesg = Request(own[f])
          /\ \A v \in Worker : Busy(v, f) => v = w
      BY <3>0 DEF Single, Carries
    <3>2. \A i \in 1..Len(m_sq') : m_sq'[i].sock = f => i = Len(m_sq) + 1 /\ m_sq'[i] = j
      BY <1>1, <3>1 DEF Replied
    <3>3. /\ ~Asking(f)' /\ sendbuffer'[f] = <<>>
          /\ \A v \in Worker : ~Busy(v, f)'
      BY <1>1, <1>3, <3>1 DEF Asking, Busy
    <3>4. Single(f)'
      BY <3>2, <3>3 DEF Single, Asking, Served
    <3>5. Request(own[f])' = Request(own[f])
      BY <1>1 DEF Request
    <3>6. Carries(f)'
      BY <3>1, <3>2, <3>3, <3>5 DEF Carries, Asking
    <3>7. phase[own[f]] = "waiting" /\ ~HasEnd(own[f])
      BY <3>0, WayEq DEF Paced
    <3>. QED
      BY <1>1, <2>0, <3>4, <3>6, <3>7 DEF Paced
  <2>. QED
    BY <2>1, <2>2
<1>. QED
  BY <1>4, <1>5, <1>6 DEF Web

\* The replies for f that the send thread takes from the queue.
LEMMA ForNobody ==
  ASSUME NEW f, ~Replied(f)
  PROVE  For(f) = <<>> /\ Replies(f) = {}
<1>1. Replies(f) = {}
  BY DEF Replies, Replied
<1>2. Cardinality(Replies(f)) = 0
  BY <1>1, FS_EmptySet
<1>. QED
  BY <1>1, <1>2 DEF For

\* A reply that is alone in the queue is all that is taken for f.
LEMMA ForOne ==
  ASSUME m_sq \in Seq(Job), NEW f, NEW i \in 1..Len(m_sq), m_sq[i].sock = f,
         \A k, l \in 1..Len(m_sq) : m_sq[k].sock = f /\ m_sq[l].sock = f => k = l
  PROVE  For(f) = <<m_sq[i].mesg>>
<1>1. Replies(f) = {i}
  BY DEF Replies
<1>2. Cardinality(Replies(f)) = 1
  BY <1>1, FS_Singleton
<1>3. {k \in Replies(f) : k <= i} = {i}
  BY <1>1
<1>4. Nth(f, 1) = i
  <2>1. \E l \in Replies(f) : Cardinality({k \in Replies(f) : k <= l}) = 1
    BY <1>1, <1>3, FS_Singleton
  <2>2. Nth(f, 1) \in Replies(f)
    BY <2>1 DEF Nth
  <2>. QED
    BY <1>1, <2>2
<1>. QED
  BY <1>2, <1>4 DEF For

\* One reply more.
LEMMA OneMore ==
  ASSUME NEW S, NEW s \in Seq(S), NEW e \in S
  PROVE  /\ Append(s, e) \in Seq(S) /\ Len(Append(s, e)) = Len(s) + 1
         /\ \A i \in 1..(Len(s) + 1) : Append(s, e)[i] = IF i = Len(s) + 1 THEN e ELSE s[i]
         /\ s \o <<e>> = Append(s, e)
  OBVIOUS

\* A buffer with one reply.
LEMMA OfOne ==
  ASSUME NEW S, NEW s \in Seq(S), s # <<>>, Len(s) <= 1
  PROVE  /\ Len(s) = 1 /\ s = <<s[1]>> /\ s[1] \in S
         /\ SubSeq(s, 1, 1) = s /\ SubSeq(s, 2, 1) = <<>>
<1>0. Len(s) \in Nat \ {0}
  BY EmptySeq
<1>1. Len(s) = 1 /\ DOMAIN s = 1..1 /\ s[1] \in S
  <2>1. Len(s) = 1
    <3>1. \A n \in Nat \ {0} : n <= 1 => n = 1
      OBVIOUS
    <3>. QED
      BY ONLY <1>0, <3>1, Len(s) <= 1, Zenon
  <2>2. DOMAIN s = 1..Len(s) /\ \A i \in 1..Len(s) : s[i] \in S
    OBVIOUS
  <2>. QED
    BY <2>1, <2>2
<1>2. s = <<s[1]>>
  BY <1>1
<1>3. SubSeq(s, 1, 1) = s
  BY <1>1
<1>4. SubSeq(s, 2, 1) = <<>>
  BY <1>1
<1>. QED
  BY <1>1, <1>2, <1>3, <1>4

\* A reply put in an empty buffer.
LEMMA EmptyMore ==
  ASSUME NEW e
  PROVE  <<>> \o <<e>> = <<e>>
  OBVIOUS

\* The replies go from the queue to the buffers.
LEMMA DrainWeb ==
  ASSUME Web, Drain
  PROVE  Web'
<1>1. /\ m_sq' = <<>> /\ m_sq \in Seq(Job)
      /\ sendbuffer' = [f \in FD |-> sendbuffer[f] \o For(f)]
      /\ UNCHANGED <<phase, asked, got, inq, hup, own, recvbuffer, m_rq, worker, tainted>>
  BY DEF Drain, client, threads, Web, QueueTypes
<1>2. Clients'
  BY <1>1 DEF Web, Clients, ClientTypes, Owners, Fresh, Counted, OwnReplies, Active, Untouched
<1>3. QueueTypes'
  BY <1>1 DEF Web, QueueTypes
<1>4. OneRequest'
  <2>. SUFFICES ASSUME NEW f \in Trusted PROVE Single(f)' /\ Carries(f)' /\ Paced(f)'
    BY <1>1 DEF OneRequest, Trusted
  <2>0. /\ f \in FD /\ sendbuffer[f] \in Seq(Msg) /\ Single(f) /\ Carries(f) /\ Paced(f)
        /\ HasEnd(own[f])' => HasEnd(own[f])
    BY <1>1, TrustedOwner DEF HasEnd, Carries
  <2>1. CASE ~Replied(f)
    <3>1. sendbuffer'[f] = sendbuffer[f]
      BY <1>1, <2>0, <2>1, ForNobody
    <3>2. \A i \in 1..Len(m_rq') : i + 0 \in 1..Len(m_rq) /\ m_rq[i + 0] = m_rq'[i]
      BY <1>1
    <3>3. \A v \in Worker : Busy(v, f)' => Busy(v, f) /\ worker'[v].job = worker[v].job
      BY <1>1 DEF Busy
    <3>4. \A i \in 1..Len(m_sq') : FALSE
      BY <1>1
    <3>. QED
      BY <1>1, <2>0, <3>1, <3>2, <3>3, <3>4, LessWay, 0 \in Int
  <2>2. CASE Replied(f)
    <3>1. PICK i \in 1..Len(m_sq) : m_sq[i].sock = f
      BY <2>2 DEF Replied
    <3>1a. \A k, l \in 1..Len(m_sq) : m_sq[k].sock = f /\ m_sq[l].sock = f => k = l
      BY <2>0 DEF Single
    <3>2. For(f) = <<m_sq[i].mesg>>
      BY <1>1, <3>1, <3>1a, ForOne
    <3>3. sendbuffer[f] = <<>> /\ ~Asking(f) /\ ~Served(f)
      BY <2>0, <2>2 DEF Single
    <3>4. m_sq[i].mesg = Request(own[f])
      BY <2>0, <3>1 DEF Carries
    <3>4a. m_sq[i] \in Job
      BY <1>1
    <3>4b. Request(own[f]) \in Msg
      BY <3>4, <3>4a DEF Job
    <3>5. sendbuffer'[f] = <<Request(own[f])>>
      BY <1>1, <2>0, <3>2, <3>3, <3>4, EmptyMore
    <3>6. ~Asking(f)' /\ ~Served(f)' /\ Request(own[f])' = Request(own[f])
      BY <1>1, <3>3 DEF Asking, Served, Busy, Request
    <3>6a. ~Replied(f)' /\ Len(m_sq') = 0
      BY <1>1 DEF Replied
    <3>6b. Len(sendbuffer'[f]) = 1 /\ sendbuffer'[f][1] = Request(own[f]) /\ sendbuffer'[f] \in Seq(Msg)
      BY <3>4b, <3>5
    <3>7. Single(f)'
      BY <3>6, <3>6a, <3>6b DEF Single, Asking, Served
    <3>8. Carries(f)'
      BY <3>6, <3>6a, <3>6b DEF Carries, Asking, Served
    <3>9. phase[own[f]] = "waiting" /\ ~HasEnd(own[f])
      BY <2>0, <2>2, WayEq DEF Paced
    <3>. QED
      BY <1>1, <2>0, <3>7, <3>8, <3>9 DEF Paced
  <2>. QED
    BY <2>1, <2>2
<1>. QED
  BY <1>2, <1>3, <1>4 DEF Web

\* The send thread writes the one reply of f.
LEMMA SendOne ==
  ASSUME Web, NEW f \in Trusted, own[f] \notin hup, sendbuffer[f] # <<>>,
         sendbuffer' = [sendbuffer EXCEPT ![f] = <<>>],
         got' = [got EXCEPT ![own[f]] = @ \o sendbuffer[f]],
         phase' = [phase EXCEPT ![own[f]] = IF @ = "waiting" THEN "idle" ELSE @],
         UNCHANGED <<asked, inq, hup, own, recvbuffer, m_rq, m_sq, worker, tainted>>
  PROVE  Web'
<1>0. own[f] \in Client
  BY TrustedOwner
<1>. SUFFICES ASSUME NEW c \in Client, c = own[f]
              PROVE  Web'
  BY <1>0
<1>1. /\ f \in FD /\ c \in Untouched /\ Active(c) /\ asked[c] \in Nat
      /\ Single(f) /\ Carries(f) /\ Paced(f) /\ ~HasEnd(c) /\ phase[c] = "waiting"
  BY TrustedOwner, WayEq DEF Paced, Web, Clients, ClientTypes
<1>2. sendbuffer[f] = <<Request(c)>> /\ ~Asking(f) /\ ~Served(f) /\ ~Replied(f)
  <2>0. sendbuffer[f] \in Seq(Msg) /\ \A i \in 1..Len(sendbuffer[f]) : sendbuffer[f][i] = Request(c)
    BY <1>1 DEF Carries
  <2>1. Len(sendbuffer[f]) = 1 /\ sendbuffer[f][1] = Request(c)
    BY <1>1, <2>0, OfOne DEF Single
  <2>. QED
    BY <1>1, <2>0, <2>1, OfOne DEF Single
<1>3. got[c] \in Seq(Msg) /\ Len(got[c]) + 1 = asked[c]
  BY <1>1 DEF Web, Clients, Counted
<1>4. Request(c) = [from |-> c, n |-> asked[c]] /\ Request(c) \in Msg
  BY <1>1 DEF Request, Msg
<1>5. /\ got'[c] = Append(got[c], Request(c)) /\ phase'[c] = "idle"
      /\ \A b \in Client : b # c => got'[b] = got[b] /\ phase'[b] = phase[b]
      /\ got' = [b \in Client |-> got'[b]]
  <2>1. got' = [got EXCEPT ![c] = got[c] \o <<Request(c)>>]
    BY <1>2
  <2>2. got[c] \o <<Request(c)>> = Append(got[c], Request(c))
    BY <1>3, <1>4, OneMore
  <2>3. got' = [got EXCEPT ![c] = Append(got[c], Request(c))]
    BY <2>1, <2>2
  <2>4. phase' = [phase EXCEPT ![c] = "idle"]
    BY <1>1
  <2>5. DOMAIN got = Client /\ DOMAIN phase = Client
    BY DEF Web, Clients, ClientTypes
  <2>. QED
    BY <2>3, <2>4, <2>5
<1>5a. /\ got'[c] \in Seq(Msg) /\ Len(got'[c]) = Len(got[c]) + 1
       /\ \A i \in 1..(Len(got[c]) + 1) :
             got'[c][i] = IF i = Len(got[c]) + 1 THEN Request(c) ELSE got[c][i]
  <2>. DEFINE s == got[c]
              e == Request(c)
  <2>1. s \in Seq(Msg) /\ e \in Msg
    BY <1>3, <1>4
  <2>. HIDE DEF s, e
  <2>2. /\ Append(s, e) \in Seq(Msg) /\ Len(Append(s, e)) = Len(s) + 1
        /\ \A i \in 1..(Len(s) + 1) : Append(s, e)[i] = IF i = Len(s) + 1 THEN e ELSE s[i]
    BY <2>1, OneMore
  <2>. QED
    BY <1>5, <2>2 DEF s, e
<1>6. \A b \in Client : phase'[b] \in {"idle", "begun", "waiting"} <=> Active(b)
  BY <1>1, <1>5 DEF Active
<1>7. ClientTypes'
  BY <1>5 DEF Web, Clients, ClientTypes
<1>8. Owners'
  <2>1. \A g \in FD : own[g] # None => Active(own[g]) /\ own[g] \in Client
    BY DEF Web, Clients, ClientTypes, Owners
  <2>. QED
    BY <1>6, <2>1 DEF Web, Clients, Owners, Active
<1>9. Fresh'
  BY <1>1, <1>5, <1>6 DEF Web, Clients, Fresh, Active
<1>10. Counted'
  <2>. SUFFICES ASSUME NEW b \in Untouched
                PROVE  /\ got'[b] \in Seq(Msg)
                       /\ b \notin hup /\ Active(b) =>
                            Len(got'[b]) = IF phase'[b] = "waiting" THEN asked[b] - 1 ELSE asked[b]
                       /\ \A i \in 1..Len(inq[b]) :
                            inq[b][i] = "end" => i = Len(inq[b]) /\ phase'[b] = "waiting"
    <3>1. \A b \in Client : Active(b)' <=> Active(b)
      BY <1>6 DEF Active
    <3>. QED
      BY <3>1 DEF Counted, Untouched
  <2>1. CASE b = c
    <3>1. got'[c] \in Seq(Msg) /\ Len(got'[c]) = asked[c]
      BY <1>3, <1>5a
    <3>2. \A i \in 1..Len(inq[c]) : inq[c][i] # "end"
      BY <1>1 DEF HasEnd
    <3>. QED
      BY <1>5, <2>1, <3>1, <3>2
  <2>2. CASE b # c
    BY <1>5, <2>2 DEF Web, Clients, Counted, Untouched
  <2>. QED
    BY <2>1, <2>2
<1>11. OwnReplies'
  <2>. SUFFICES ASSUME NEW b \in Client \ tainted, NEW i \in 1..Len(got'[b])
                PROVE  got'[b][i] = [from |-> b, n |-> i]
    BY DEF OwnReplies
  <2>1. CASE b = c
    <3>1. i \in 1..Len(got[c]) => got[c][i] = [from |-> c, n |-> i]
      BY <2>1 DEF Web, Clients, OwnReplies
    <3>2. i \in 1..asked[c] /\ (i # asked[c] => i \in 1..Len(got[c]))
      <4>1. i \in 1..(Len(got[c]) + 1)
        BY <1>5a, <2>1
      <4>. QED
        BY <1>3, <4>1
    <3>3. got'[c][i] = IF i = asked[c] THEN Request(c) ELSE got[c][i]
      BY <1>3, <1>5a, <2>1, <3>2
    <3>. QED
      BY <1>4, <2>1, <3>1, <3>2, <3>3
  <2>2. CASE b # c
    BY <1>5, <2>2 DEF Web, Clients, OwnReplies
  <2>. QED
    BY <2>1, <2>2
<1>12. QueueTypes'
  BY DEF Web, QueueTypes
<1>13. OneRequest'
  <2>. SUFFICES ASSUME NEW g \in Trusted PROVE Single(g)' /\ Carries(g)' /\ Paced(g)'
    BY DEF OneRequest, Trusted
  <2>1. CASE g = f
    <3>1. sendbuffer'[f] = <<>> /\ <<>> \in Seq(Msg)
      BY <1>1 DEF Web, QueueTypes
    <3>2. ~OnItsWay(f)'
      BY <1>2, <3>1 DEF OnItsWay, Asking, Served, Replied, Busy
    <3>. QED
      BY <2>1, <3>1, <3>2, NoWayNext
  <2>2. CASE g # f
    <3>1. own[g] # c /\ own[g] \in Client /\ g \in FD
      BY <1>1, <2>2, TrustedOwner DEF Web, Clients, Owners
    <3>2. HasEnd(own[g])' => HasEnd(own[g])
      BY DEF HasEnd
    <3>. QED
      BY <1>1, <1>5, <2>2, <3>1, <3>2, TrustedOwner, SameWay DEF Web, QueueTypes
  <2>. QED
    BY <2>1, <2>2
<1>. QED
  BY <1>7, <1>8, <1>9, <1>10, <1>11, <1>12, <1>13 DEF Web, Clients

\* The send thread writes for nobody, a tainted client or one that closed.
LEMMA SendOther ==
  ASSUME Web, NEW f \in FD, NEW b, b \in {sendbuffer[f], <<>>} \/ f \notin Trusted,
         sendbuffer' = [sendbuffer EXCEPT ![f] = b],
         \A c \in Client : \/ got'[c] = got[c] /\ phase'[c] = phase[c]
                           \/ c \in tainted /\ (Active(c)' <=> Active(c)) /\ Active(c),
         got' = [c \in Client |-> got'[c]],
         phase' \in [Client -> {"new", "queued", "idle", "begun", "waiting", "gone"}],
         UNCHANGED <<asked, inq, hup, own, recvbuffer, m_rq, m_sq, worker, tainted>>
  PROVE  Web'
<1>1. ClientTypes'
  BY DEF Web, Clients, ClientTypes
<1>2. \A c \in Client : Active(c)' <=> Active(c)
  BY DEF Active
<1>3. Owners'
  <2>1. \A g \in FD : own[g] # None => Active(own[g]) /\ own[g] \in Client
    BY DEF Web, Clients, ClientTypes, Owners
  <2>. QED
    BY <1>2, <2>1 DEF Web, Clients, Owners, Active
<1>4. Fresh'
  BY <1>2 DEF Web, Clients, Fresh
<1>5. \A c \in Untouched : got'[c] = got[c] /\ phase'[c] = phase[c]
  BY DEF Untouched
<1>6. Counted' /\ OwnReplies'
  BY <1>2, <1>5 DEF Web, Clients, Counted, OwnReplies, Untouched
<1>7. QueueTypes'
  BY DEF Web, QueueTypes
<1>8. OneRequest'
  <2>. SUFFICES ASSUME NEW g \in Trusted PROVE Single(g)' /\ Carries(g)' /\ Paced(g)'
    BY DEF OneRequest, Trusted
  <2>1. g \in FD /\ own[g] \in Untouched /\ Single(g) /\ Carries(g) /\ Paced(g)
    BY TrustedOwner
  <2>2. HasEnd(own[g])' => HasEnd(own[g])
    BY DEF HasEnd
  <2>3. sendbuffer'[g] \in {sendbuffer[g], <<>>}
    BY DEF Web, QueueTypes
  <2>4. \A i \in 1..Len(m_rq') : i + 0 \in 1..Len(m_rq) /\ m_rq[i + 0] = m_rq'[i]
    OBVIOUS
  <2>5. \A v \in Worker : Busy(v, g)' => Busy(v, g) /\ worker'[v].job = worker[v].job
    BY DEF Busy
  <2>. QED
    BY <1>5, <2>1, <2>2, <2>3, <2>4, <2>5, LessWay, 0 \in Int
<1>. QED
  BY <1>1, <1>3, <1>4, <1>6, <1>7, <1>8 DEF Web, Clients

\* The send thread writes to f.
LEMMA SendWeb ==
  ASSUME Web, NEW f \in FD, Send(f)
  PROVE  Web'
<1>. DEFINE c == own[f]
            b == sendbuffer[f]
<1>1. PICK k \in 0..Len(b) :
         /\ (k = 0) = (b = <<>>)
         /\ c = None => k = Len(b)
         /\ got' = IF c = None \/ c \in hup THEN got
                   ELSE [got EXCEPT ![c] = @ \o SubSeq(b, 1, k)]
         /\ phase' = IF c = None \/ c \in hup \/ k = 0 THEN phase
                     ELSE [phase EXCEPT ![c] = IF @ = "waiting" THEN "idle" ELSE @]
         /\ sendbuffer' = [sendbuffer EXCEPT ![f] = Unsent(b, k)]
  BY DEF Send
<1>2. UNCHANGED <<asked, inq, hup, own, recvbuffer, m_rq, m_sq, worker, tainted>>
  BY DEF Send, threads
<1>3. c # None => c \in Client /\ Active(c)
  BY DEF Web, Clients, ClientTypes, Owners
<1>4. /\ got' = [d \in Client |-> got'[d]]
      /\ phase' \in [Client -> {"new", "queued", "idle", "begun", "waiting", "gone"}]
      /\ \A d \in Client : (got'[d] = got[d] /\ phase'[d] = phase[d]) \/ (d = c /\ c # None)
      /\ c # None => phase'[c] \in {"idle", "begun", "waiting"}
  <2>1. CASE got' = got /\ phase' = phase
    <3>1. got = [d \in Client |-> got[d]]
      BY DEF Web, Clients, ClientTypes
    <3>2. phase \in [Client -> {"new", "queued", "idle", "begun", "waiting", "gone"}]
      BY DEF Web, Clients, ClientTypes
    <3>. QED
      <4>1. phase' = phase /\ got' = got
        BY <2>1
      <4>2. got' = [d \in Client |-> got'[d]]
        BY <3>1, <4>1
      <4>3. c # None => phase'[c] \in {"idle", "begun", "waiting"}
        BY <1>3, <4>1 DEF Active
      <4>4. \A d \in Client : got'[d] = got[d] /\ phase'[d] = phase[d]
        BY <4>1
      <4>5. phase' \in [Client -> {"new", "queued", "idle", "begun", "waiting", "gone"}]
        BY <3>2, <4>1
      <4>. HIDE DEF c
      <4>. QED
        BY <4>2, <4>3, <4>4, <4>5
  <2>2. CASE c # None
    BY <1>1, <1>3, <2>2 DEF Web, Clients, ClientTypes, Active
  <2>. QED
    BY <1>1, <2>1, <2>2
<1>5. CASE f \notin Trusted
  <2>1. c # None => c \in tainted
    BY <1>5 DEF Trusted
  <2>2. \A d \in Client : \/ got'[d] = got[d] /\ phase'[d] = phase[d]
                          \/ d \in tainted /\ (Active(d)' <=> Active(d)) /\ Active(d)
    BY <1>3, <1>4, <2>1 DEF Active
  <2>. QED
    BY <1>1, <1>2, <1>4, <1>5, <2>2, SendOther
<1>6. CASE f \in Trusted
  <2>1. /\ Single(f) /\ b \in Seq(Msg) /\ c # None /\ c \in Untouched
    BY <1>6, TrustedOwner DEF Carries
  <2>2. Len(b) <= 1
    BY <2>1 DEF Single
  <2>3. CASE b = <<>>
    <3>1. k = 0 /\ SubSeq(b, 1, k) = <<>> /\ Unsent(b, k) = <<>>
      BY <1>1, <2>3 DEF Unsent
    <3>2. phase' = phase
      BY <1>1, <3>1
    <3>3. \A d \in Client : got'[d] = got[d]
      <4>1. CASE c \in hup
        BY <1>1, <4>1
      <4>2. CASE c \notin hup
        <5>1. got[c] \in Seq(Msg)
          BY <2>1 DEF Web, Clients, Counted
        <5>2. got[c] \o <<>> = got[c]
          BY <5>1
        <5>. QED
          BY <1>1, <3>1, <4>2, <5>2 DEF Web, Clients, ClientTypes
      <4>. QED
        BY <4>1, <4>2
    <3>. QED
      BY <1>1, <1>2, <1>4, <3>1, <3>2, <3>3, SendOther
  <2>4. CASE b # <<>>
    <3>0. Len(b) = 1
      BY <2>1, <2>2, <2>4, OfOne
    <3>1. k = Len(b) /\ k = 1
      BY <1>1, <2>4, <3>0
    <3>2. SubSeq(b, 1, k) = b /\ Unsent(b, k) = <<>>
      BY <2>1, <2>2, <2>4, <3>0, <3>1, OfOne DEF Unsent
    <3>3. CASE c \in hup
      <4>1. got' = got /\ phase' = phase
        BY <1>1, <3>3
      <4>. QED
        BY <1>1, <1>2, <1>4, <3>2, <4>1, SendOther
    <3>4. CASE c \notin hup
      <4>1. /\ got' = [got EXCEPT ![c] = @ \o b]
            /\ phase' = [phase EXCEPT ![c] = IF @ = "waiting" THEN "idle" ELSE @]
        <5>1. c # None /\ k # 0
          BY <2>1, <3>1
        <5>. QED
          BY <1>1, <3>2, <3>4, <5>1
      <4>. QED
        BY <1>1, <1>2, <1>6, <2>4, <3>2, <3>4, <4>1, SendOne
    <3>. QED
      BY <3>3, <3>4
  <2>. QED
    BY <2>3, <2>4
<1>. QED
  BY <1>5, <1>6

\* The next process knows no client.
LEMMA ProcessEndsWeb ==
  ASSUME Web, ProcessEnds
  PROVE  Web'
<1>1. /\ phase' = [c \in Client |-> "gone"] /\ asked' = [c \in Client |-> 0]
      /\ got' = [c \in Client |-> <<>>] /\ inq' = [c \in Client |-> <<>>]
      /\ hup' = hup \ Client /\ tainted' = tainted \ Client
      /\ own' = [f \in FD |-> None]
      /\ recvbuffer' = [f \in FD |-> <<>>] /\ sendbuffer' = [f \in FD |-> <<>>]
      /\ m_rq' = <<>> /\ m_sq' = <<>>
      /\ worker' = [w \in Worker |-> Step("exit")]
  BY DEF ProcessEnds, Leave, Empty
<1>2. ClientTypes'
  BY <1>1 DEF ClientTypes, Web, Clients
<1>3. QueueTypes'
  BY <1>1 DEF QueueTypes, Step
<1>4. hup' = {} /\ tainted' = {}
  BY <1>1 DEF Web, Clients, ClientTypes
<1>5. Owners' /\ Fresh' /\ Counted' /\ OwnReplies'
  BY <1>1, <1>4 DEF Owners, Fresh, Counted, OwnReplies, Active, Untouched
<1>6. OneRequest'
  BY <1>1 DEF OneRequest, Trusted
<1>. QED
  BY <1>2, <1>3, <1>5, <1>6 DEF Web, Clients

\* The other steps of the threads.
LEMMA QuietWeb ==
  ASSUME Web,
         \/ \E w \in Worker : Sleep(w) \/ Wake(w) \/ Insq(w)
         \/ SenderExits \/ SenderWait \/ Signal \/ ReceiverExits \/ UNCHANGED WSvars
  PROVE  Web'
<1>1. UNCHANGED <<client, own, clientmap, m_rq, m_sq, tainted>>
  BY DEF Sleep, Wake, Insq, SenderExits, SenderWait, Signal, ReceiverExits, WSvars, kernel, control
<1>2. /\ worker' = [v \in Worker |-> worker'[v]]
      /\ \A v \in Worker : worker'[v] = worker[v] \/ worker'[v].at # "busy"
  <2>1. worker = [v \in Worker |-> worker[v]]
    BY DEF Web, QueueTypes
  <2>2. CASE UNCHANGED worker
    BY <2>1, <2>2
  <2>3. CASE \E w \in Worker : Sleep(w) \/ Wake(w) \/ Insq(w)
    BY <2>1, <2>3 DEF Sleep, Wake, Insq, Become, Step
  <2>4. CASE ReceiverExits
    BY <2>4 DEF ReceiverExits, Step
  <2>. QED
    BY <2>2, <2>3, <2>4 DEF SenderExits, SenderWait, Signal, WSvars, threads
<1>. QED
  BY <1>1, <1>2, ThreadsWeb

\* Every step keeps the invariant.
LEMMA NextWeb == Web /\ [WSNext]_WSvars => Web'
<1>. SUFFICES ASSUME Web, [WSNext]_WSvars PROVE Web'
  OBVIOUS
<1>1. ASSUME NEW c \in Client, Connect(c) \/ HangUp(c) \/ \E p \in Piece : SendPiece(c, p)
      PROVE  Web'
  BY <1>1, ConnectWeb, HangUpWeb, SendPieceWeb
<1>2. CASE ReceiverStep
  BY <1>2, AcceptWeb, ReceiveWeb, DisconnectedWeb, QuietWeb DEF ReceiverStep
<1>3. CASE SenderStep
  BY <1>3, QuietWeb, DrainWeb, SendWeb DEF SenderStep
<1>4. ASSUME NEW w \in Worker, WorkerStep(w)
      PROVE  Web'
  BY <1>4, QuietWeb, TakeWeb, AnswerWeb DEF WorkerStep
<1>5. CASE Signal \/ UNCHANGED WSvars
  BY <1>5, QuietWeb
<1>6. CASE Exit \/ DataRace \/ \E f \in FD : ShortRequest(f)
  BY <1>6, ProcessEndsWeb DEF Exit, DataRace, ShortRequest
<1>. QED
  BY <1>1, <1>2, <1>3, <1>4, <1>5, <1>6 DEF WSNext

(* A client gets the replies to its own requests, each once and in order,  *)
(* unless its number had something on its way when it was accepted:        *)
(* however the threads take turns and whoever closes when.                 *)
THEOREM OwnRepliesCorrect == WSSpec => []OwnReplies
<1>1. Web => OwnReplies
  BY DEF Web, Clients
<1>. QED
  BY <1>1, InitWeb, NextWeb, PTL DEF WSSpec

-----------------------------------------------------------------------------
(* The list of the stations.                                               *)

\* The stations of a pass before the one it is at.
GoneThrough(n) == {s \in StationIds : \E i \in 1..(n - 1) : pass.stcodelist[i] = s}

\* A pass works on one of the lists that stcode.ini has held, no list in the table
\* is newer, and what its transaction has is what it has gone through: so unless a
\* pass has read of two lists or gone on after an error.
PassOK ==
  /\ \A s \in StationIds : codes[s] <= Len(stcode)
  /\ IF pass.at = "down" THEN newcodes = {} ELSE
       /\ pass.number \in 1..Len(stcode)
       /\ mixed \/ pass.stcodelist = stcode[pass.number]
       /\ pass.pos <= Len(pass.stcodelist) + 1
       /\ \A s \in StationIds : codes[s] <= pass.number
       /\ newcodes \subseteq GoneThrough(pass.pos)
       /\ mixed \/ newcodes = GoneThrough(pass.pos)

StationsInv == StationsTypes /\ PassOK /\ OnePass

LEMMA NoPassType == NoPass \in [at : {"down", "rows"}, stcodelist : Seq(StationIds),
                                 number : Nat, pos : Nat \ {0}]
<1>1. <<>> \in Seq(StationIds)
  OBVIOUS
<1>. QED
  BY <1>1 DEF NoPass

LEMMA StationsInitially == StationsInit => StationsInv
<1>. SUFFICES ASSUME StationsInit PROVE StationsInv
  OBVIOUS
<1>1. PICK list \in Inis : stcode = <<list>>
  BY DEF StationsInit
<1>2. stcode \in Seq(Inis) /\ stcode # <<>> /\ Len(stcode) = 1
  BY <1>1
<1>3. StationsTypes
  BY <1>2, NoPassType DEF StationsInit, StationsTypes
<1>4. PassOK /\ OnePass
  BY <1>2 DEF StationsInit, PassOK, OnePass, NoPass
<1>. QED
  BY <1>3, <1>4 DEF StationsInv

\* The lists that stcode.ini has held stay what they were.
LEMMA EditIniKeeps == StationsInv /\ EditIni => StationsInv'
<1>. SUFFICES ASSUME StationsInv, EditIni PROVE StationsInv'
  OBVIOUS
<1>1. PICK list \in Inis : stcode' = Append(stcode, list)
  BY DEF EditIni
<1>2. /\ stcode' \in Seq(Inis) /\ stcode' # <<>> /\ Len(stcode') = Len(stcode) + 1
      /\ Len(stcode) \in Nat
      /\ \A n \in 1..Len(stcode) : stcode'[n] = stcode[n]
  <2>1. stcode \in Seq(Inis)
    BY DEF StationsInv, StationsTypes
  <2>. QED
    BY <1>1, <2>1, AppendProperties
<1>3. UNCHANGED <<program, codefaults, codes, pass, newcodes, mixed>>
  BY DEF EditIni
<1>4. StationsTypes'
  BY <1>2, <1>3 DEF StationsInv, StationsTypes
<1>5. codes \in [StationIds -> Nat] /\ pass.number \in Nat
  BY DEF StationsInv, StationsTypes
<1>6. GoneThrough(pass.pos)' = GoneThrough(pass.pos)
  BY <1>3 DEF GoneThrough
<1>7. PassOK'
  BY <1>2, <1>3, <1>5, <1>6 DEF StationsInv, PassOK
<1>8. ASSUME NEW s \in StationIds, codes[s] # 0
      PROVE  \A t \in StationIds : Listed(t, codes[s])' <=> Listed(t, codes[s])
  <2>1. codes[s] \in 1..Len(stcode)
    BY <1>5, <1>8 DEF StationsInv, PassOK
  <2>. QED
    BY <1>2, <1>3, <2>1 DEF Listed
<1>9. OnePass'
  BY <1>2, <1>3, <1>5, <1>8 DEF StationsInv, OnePass
<1>. QED
  BY <1>4, <1>7, <1>9 DEF StationsInv

\* What the pass has gone through stays what it was.
LEMMA WriteInPlaceKeeps == StationsInv /\ WriteInPlace => StationsInv'
<1>. SUFFICES ASSUME StationsInv, WriteInPlace PROVE StationsInv'
  OBVIOUS
<1>1. PICK list \in Inis, k \in Nat \ {0} :
        /\ k <= Len(list) + 1 /\ stcode' = Append(stcode, list)
        /\ pass' = [pass EXCEPT !.stcodelist = SubSeq(@, 1, pass.pos - 1) \o SubSeq(list, k, Len(list))]
  <2>1. \A list \in Inis : \A k \in 1..Len(list) + 1 : k \in Nat \ {0} /\ k <= Len(list) + 1
    BY StationsAssumption
  <2>. QED
    BY <2>1 DEF WriteInPlace
<1>2. /\ stcode' \in Seq(Inis) /\ stcode' # <<>> /\ Len(stcode') = Len(stcode) + 1
      /\ Len(stcode) \in Nat
  <2>1. stcode \in Seq(Inis)
    BY DEF StationsInv, StationsTypes
  <2>. QED
    BY <1>1, <2>1, AppendProperties
<1>3. UNCHANGED <<program, codefaults, codes, newcodes>> /\ mixed' = TRUE /\ pass.at = "rows"
  BY DEF WriteInPlace
<1>4. /\ pass \in [at : {"down", "rows"}, stcodelist : Seq(StationIds), number : Nat, pos : Nat \ {0}]
      /\ pass.pos <= Len(pass.stcodelist) + 1 /\ list \in Seq(StationIds)
      /\ codes \in [StationIds -> Nat]
  BY <1>3, StationsAssumption DEF StationsInv, StationsTypes, PassOK
<1>. DEFINE old == SubSeq(pass.stcodelist, 1, pass.pos - 1)
            new == SubSeq(list, k, Len(list))
<1>5. old \in Seq(StationIds) /\ Len(old) = pass.pos - 1
      /\ \A i \in 1..pass.pos - 1 : old[i] = pass.stcodelist[i]
  BY <1>4
<1>6. new \in Seq(StationIds)
  <2>1. k \in Int /\ Len(list) \in Int /\ list \in [1..Len(list) -> StationIds]
    <3>1. list \in Seq(StationIds)
      BY <1>4
    <3>2. Len(list) \in Nat /\ list \in [1..Len(list) -> StationIds]
      BY <3>1, LenProperties
    <3>. QED
      BY <3>2
  <2>2. \A i \in k..Len(list) : list[i] \in StationIds
    <3>. SUFFICES ASSUME NEW i \in k..Len(list) PROVE list[i] \in StationIds
      OBVIOUS
    <3>1. i \in 1..Len(list)
      BY <2>1, <1>1
    <3>. QED
      BY <2>1, <3>1
  <2>. QED
    BY <2>1, <2>2, SubSeqProperties, ZenonT(30)
<1>7. /\ old \o new \in Seq(StationIds) /\ Len(old \o new) >= pass.pos - 1
      /\ \A i \in 1..pass.pos - 1 : (old \o new)[i] = pass.stcodelist[i]
  <2>. HIDE DEF old, new
  <2>1. Len(new) \in Nat /\ Len(old) \in Nat /\ pass.pos - 1 \in Nat
    BY <1>4, <1>5, <1>6
  <2>. QED
    BY <1>5, <1>6, <2>1, ConcatProperties
<1>8. /\ pass'.at = "rows" /\ pass'.number = pass.number /\ pass'.pos = pass.pos
      /\ pass'.stcodelist = old \o new
      /\ pass' \in [at : {"down", "rows"}, stcodelist : Seq(StationIds), number : Nat, pos : Nat \ {0}]
  <2>. HIDE DEF old, new
  <2>1. pass' = [pass EXCEPT !.stcodelist = old \o new]
    BY <1>1 DEF old, new
  <2>. QED
    BY <1>3, <1>4, <1>7, <2>1
<1>. HIDE DEF old, new
<1>9. GoneThrough(pass.pos)' = GoneThrough(pass.pos)
  BY <1>4, <1>7, <1>8 DEF GoneThrough
<1>10. StationsTypes'
  BY <1>2, <1>3, <1>8 DEF StationsInv, StationsTypes
<1>11. PassOK'
  <2>1. pass'.pos <= Len(pass'.stcodelist) + 1
    BY <1>4, <1>7, <1>8
  <2>2. \A s \in StationIds : codes'[s] <= Len(stcode')
    BY <1>2, <1>3, <1>4 DEF StationsInv, PassOK
  <2>3. pass'.number \in 1..Len(stcode')
    BY <1>2, <1>3, <1>8 DEF StationsInv, PassOK
  <2>. QED
    BY <1>3, <1>8, <1>9, <2>1, <2>2, <2>3 DEF StationsInv, PassOK
<1>. QED
  BY <1>3, <1>10, <1>11 DEF StationsInv, OnePass

LEMMA LoadListKeeps == StationsInv /\ LoadList => StationsInv'
<1>. SUFFICES ASSUME StationsInv, LoadList PROVE StationsInv'
  OBVIOUS
<1>1. /\ stcode \in Seq(Inis) /\ Len(stcode) \in Nat \ {0} /\ stcode[Len(stcode)] \in Inis
      /\ \A list \in Inis : list \in Seq(StationIds)
  BY StationsAssumption DEF StationsInv, StationsTypes
<1>2. UNCHANGED <<program, codefaults, stcode, codes, newcodes, mixed>> /\ newcodes = {}
  BY DEF LoadList, StationsInv, PassOK
<1>3. pass' = [at |-> "rows", stcodelist |-> stcode[Len(stcode)],
               number |-> Len(stcode), pos |-> 1]
  BY DEF LoadList
<1>4. StationsTypes'
  BY <1>1, <1>2, <1>3 DEF StationsInv, StationsTypes
<1>5. GoneThrough(pass.pos)' = {}
  BY <1>3 DEF GoneThrough
<1>6. Len(stcode[Len(stcode)]) \in Nat
  BY <1>1
<1>7. PassOK'
  BY <1>1, <1>2, <1>3, <1>5, <1>6 DEF StationsInv, PassOK
<1>8. OnePass'
  BY <1>2 DEF StationsInv, OnePass, Listed
<1>. QED
  BY <1>4, <1>7, <1>8 DEF StationsInv

\* The steps that leave T_ZHOBTCODE alone, and with it OnePass.
LEMMA OnePassKept ==
  ASSUME StationsInv, UNCHANGED <<stcode, codes>>, mixed => mixed'
  PROVE  OnePass'
BY DEF StationsInv, OnePass, Listed

\* The pass goes on to its next station, with or without the one it is at.
LEMMA NextRowKeeps ==
  ASSUME StationsInv, HasRow, NextRow, UNCHANGED <<program, stcode, codes>>,
         codefaults' \in Nat, mixed' \in BOOLEAN, mixed => mixed',
         \/ newcodes' = newcodes \cup {Station}
         \/ newcodes' = newcodes /\ mixed'
  PROVE  StationsInv'
<1>1. /\ pass \in [at : {"down", "rows"}, stcodelist : Seq(StationIds), number : Nat,
                   pos : Nat \ {0}]
      /\ pass.at = "rows" /\ pass.pos \in 1..Len(pass.stcodelist)
      /\ Len(pass.stcodelist) \in Nat
  BY DEF StationsInv, StationsTypes, HasRow
<1>2. Station \in StationIds
  BY <1>1 DEF Station
<1>3. /\ pass' = [pass EXCEPT !.pos = @ + 1]
      /\ program' = program /\ stcode' = stcode /\ codes' = codes
      /\ newcodes' \subseteq newcodes \cup {Station}
      /\ mixed' \/ newcodes' = newcodes \cup {Station}
  BY DEF NextRow
<1>4. StationsTypes'
  <2>1. pass' \in [at : {"down", "rows"}, stcodelist : Seq(StationIds), number : Nat,
                   pos : Nat \ {0}]
    BY <1>1, <1>3
  <2>2. newcodes' \subseteq StationIds
    BY <1>2, <1>3 DEF StationsInv, StationsTypes
  <2>. QED
    BY <1>3, <2>1, <2>2 DEF StationsInv, StationsTypes
<1>5. GoneThrough(pass.pos)' = GoneThrough(pass.pos) \cup {Station}
  BY <1>1, <1>2, <1>3 DEF GoneThrough, Station
<1>6. PassOK'
  <2>1. /\ pass'.at = "rows" /\ pass'.number = pass.number
        /\ pass'.stcodelist = pass.stcodelist /\ pass'.pos = pass.pos + 1
    BY <1>1, <1>3
  <2>2. newcodes \subseteq GoneThrough(pass.pos) /\ (mixed \/ newcodes = GoneThrough(pass.pos))
    BY <1>1 DEF StationsInv, PassOK
  <2>3. newcodes' \subseteq GoneThrough(pass.pos)'
    BY <1>3, <1>5, <2>2
  <2>4. mixed' \/ newcodes' = GoneThrough(pass.pos)'
    BY <1>3, <1>5, <2>2
  <2>. QED
    BY <1>1, <1>3, <2>1, <2>3, <2>4 DEF StationsInv, PassOK
<1>. QED
  BY <1>4, <1>6, OnePassKept DEF StationsInv

LEMMA GiveUpKeeps ==
  ASSUME StationsInv, GiveUp, UNCHANGED <<program, stcode, codes, mixed>>,
         codefaults' \in Nat
  PROVE  StationsInv'
<1>1. /\ pass' = NoPass /\ newcodes' = {} /\ codefaults' \in Nat
      /\ program' = program /\ stcode' = stcode /\ codes' = codes /\ mixed' = mixed
  BY DEF GiveUp
<1>2. StationsTypes'
  BY <1>1, NoPassType DEF StationsInv, StationsTypes
<1>3. PassOK'
  BY <1>1 DEF StationsInv, PassOK, NoPass
<1>. QED
  BY <1>2, <1>3, OnePassKept DEF StationsInv

\* At the end of its list a pass that mixed nothing has all stations of it.
LEMMA CommitListKeeps == StationsInv /\ CommitList => StationsInv'
<1>. SUFFICES ASSUME StationsInv, CommitList PROVE StationsInv'
  OBVIOUS
<1>1. /\ pass.at = "rows" /\ pass.pos = Len(pass.stcodelist) + 1
      /\ Len(pass.stcodelist) \in Nat /\ Len(stcode) \in Nat
      /\ pass.number \in 1..Len(stcode)
      /\ codes \in [StationIds -> Nat]
      /\ \A s \in StationIds : codes[s] <= pass.number
      /\ newcodes \subseteq StationIds
  BY DEF StationsInv, StationsTypes, PassOK, CommitList, HasRow
<1>2. /\ codes' = [s \in StationIds |-> IF s \in newcodes THEN pass.number ELSE codes[s]]
      /\ GiveUp /\ UNCHANGED <<program, codefaults, stcode, mixed>>
  BY DEF CommitList
<1>3. ASSUME ~mixed
      PROVE  \A s \in StationIds : s \in GoneThrough(pass.pos) <=> Listed(s, pass.number)
  <2>1. pass.stcodelist = stcode[pass.number] /\ pass.pos - 1 = Len(stcode[pass.number])
    BY <1>1, <1>3 DEF StationsInv, PassOK
  <2>. QED
    BY <1>1, <2>1 DEF GoneThrough, Listed
<1>4. StationsTypes'
  <2>1. codes' \in [StationIds -> Nat]
    BY <1>1, <1>2
  <2>. QED
    BY <1>2, <2>1, NoPassType DEF StationsInv, StationsTypes, GiveUp
<1>5. PassOK'
  BY <1>1, <1>2 DEF StationsInv, PassOK, GiveUp, NoPass
<1>6. ASSUME ~mixed, NEW s \in StationIds, codes'[s] # 0
      PROVE  /\ codes'[s] <= Len(stcode) /\ Listed(s, codes'[s])
             /\ \A t \in StationIds : Listed(t, codes'[s]) => codes'[t] >= codes'[s]
  <2>2. newcodes = GoneThrough(pass.pos)
    BY <1>1, <1>6 DEF StationsInv, PassOK
  <2>3. CASE s \in newcodes
    BY <1>1, <1>2, <1>3, <1>6, <2>2, <2>3
  <2>4. CASE s \notin newcodes
    <3>1. /\ codes'[s] = codes[s] /\ codes[s] \in Nat /\ codes[s] <= pass.number
          /\ codes[s] <= Len(stcode) /\ Listed(s, codes[s])
          /\ \A t \in StationIds : Listed(t, codes[s]) => codes[t] >= codes[s]
      BY <1>1, <1>2, <1>6, <2>4 DEF StationsInv, OnePass
    <3>. QED
      BY <1>1, <1>2, <3>1
  <2>. QED
    BY <2>3, <2>4
<1>7. OnePass'
  BY <1>2, <1>6 DEF OnePass, Listed
<1>. QED
  BY <1>4, <1>5, <1>7 DEF StationsInv

LEMMA StationsKept == StationsInv /\ [StationsNext]_stationVars => StationsInv'
<1>. SUFFICES ASSUME StationsInv, [StationsNext]_stationVars PROVE StationsInv'
  OBVIOUS
<1>0. codefaults \in Nat /\ mixed \in BOOLEAN
  BY DEF StationsInv, StationsTypes
<1>1. CASE SaveStation
  BY <1>0, <1>1, NextRowKeeps DEF SaveStation
<1>2. CASE SaveAgainFails
  BY <1>0, <1>2, GiveUpKeeps DEF SaveAgainFails
<1>3. CASE CodeFault
  <2>1. codefaults' \in Nat /\ UNCHANGED <<program, stcode, codes>>
    BY <1>0, <1>3 DEF CodeFault
  <2>2. CASE HasRow /\ Fails /\ program = "myidc"
    BY <1>0, <2>1, <2>2, NextRowKeeps DEF Fails
  <2>3. CASE GiveUp /\ UNCHANGED mixed
    BY <2>1, <2>3, GiveUpKeeps
  <2>. QED
    BY <1>3, <2>2, <2>3 DEF CodeFault, Fails
<1>4. CASE UNCHANGED stationVars
  <2>1. StationsTypes' /\ PassOK'
    BY <1>4 DEF stationVars, StationsInv, StationsTypes, PassOK, GoneThrough
  <2>2. UNCHANGED <<stcode, codes, mixed>>
    BY <1>4 DEF stationVars
  <2>. QED
    BY <2>1, <2>2, OnePassKept DEF StationsInv
<1>. QED
  BY <1>1, <1>2, <1>3, <1>4, EditIniKeeps, WriteInPlaceKeeps, LoadListKeeps, CommitListKeeps DEF StationsNext

(* For any stations, lists and number of replacements and faults: what a   *)
(* pass over stcode.ini saves it saves together (站点参数入库csv.cpp:      *)
(* 97-139), unless it went on after an error (参数入库.cpp) or read a list *)
(* that was written in place (站点参数入库xml.cpp:82-104).                 *)
THEOREM OnePassCorrect == StationsSpec => []OnePass
<1>1. StationsInv => OnePass
  BY DEF StationsInv
<1>. QED
  BY <1>1, StationsInitially, StationsKept, PTL DEF StationsSpec

-----------------------------------------------------------------------------
(* The observations of the stations.                                       *)

\* The files that crtsurfdata will not write any more.
Settled == {f \in SurfFiles : f[2] < minute \/ (f[2] = minute /\ f[1] \notin crt.formats)}

\* Where the loader has read a file up to line n, the rows are in its transaction.
ReadUpTo(n) == \A i \in 1..Len(lines[obt.file]) :
                 i < n => lines[obt.file][i] \in newrows \cup Refused \cup {Title}

\* Files that have a name stay what they are, a title is the first line of a csv
\* file, and what the loader has read of its file it has kept.
LoaderOK ==
  /\ crt.formats # {} => minute # 0
  /\ surfdata \cup obt.todo \cup finished \subseteq Settled
  /\ \A f \in SurfFiles : f[1] = "csv" /\ lines[f] # <<>> => lines[f][1] = Title
  /\ obt.at \in {"rows", "commit"} =>
       /\ obt.file \in Settled
       /\ broken \/ ReadUpTo(IF obt.at = "rows" THEN obt.pos ELSE Len(lines[obt.file]) + 1)

SurfInv == SurfTypes /\ LoaderOK /\ FinishedIsLoaded

LineType == Seq((Observers \X Nat) \cup {Title})

LEMMA DownTypes == /\ CrtDown \in [formats : SUBSET {"csv", "xml"}, stlist : Seq(Observers)]
                   /\ ObtDown \in [at : {"down", "file", "rows", "commit"}, todo : SUBSET SurfFiles,
                                   file : SurfFiles \cup {<<"none", 0>>}, pos : Nat \ {0}]
<1>1. <<>> \in Seq(Observers)
  OBVIOUS
<1>. QED
  BY <1>1 DEF CrtDown, ObtDown

LEMMA SurfInitially == SurfInit => SurfInv
<1>. SUFFICES ASSUME SurfInit PROVE SurfInv
  OBVIOUS
<1>1. <<>> \in LineType /\ 0 \in 0..MaxMinutes
  BY SurfAssumption DEF LineType
<1>2. lines \in [SurfFiles -> LineType] /\ \A f \in SurfFiles : lines[f] = <<>>
  BY <1>1 DEF SurfInit
<1>3. SurfTypes
  BY <1>1, <1>2, DownTypes DEF SurfInit, SurfTypes, LineType
<1>4. LoaderOK
  BY <1>2 DEF SurfInit, LoaderOK, CrtDown, ObtDown
<1>5. FinishedIsLoaded
  BY DEF SurfInit, FinishedIsLoaded
<1>. QED
  BY <1>3, <1>4, <1>5 DEF SurfInv

\* A step that leaves the files, and what the loader has of them.
LEMMA LoaderRests ==
  ASSUME SurfInv, UNCHANGED <<site, crt, minute, lines, obt, broken, newrows, mind, finished, unsaved>>,
         surfdata' \subseteq surfdata, surffaults' \in Nat
  PROVE  SurfInv'
<1>1. /\ site' = site /\ crt' = crt /\ minute' = minute /\ lines' = lines /\ obt' = obt
      /\ broken' = broken /\ newrows' = newrows /\ mind' = mind /\ finished' = finished
      /\ unsaved' = unsaved
  OBVIOUS
<1>2. SurfTypes'
  BY <1>1 DEF SurfInv, SurfTypes
<1>3. Settled' = Settled
  BY <1>1 DEF Settled
<1>4. LoaderOK'
  BY <1>1, <1>3 DEF SurfInv, LoaderOK, ReadUpTo
<1>5. FinishedIsLoaded'
  BY <1>1 DEF SurfInv, FinishedIsLoaded, DataOf
<1>. QED
  BY <1>2, <1>4, <1>5 DEF SurfInv

\* A step of crtsurfdata: it writes only files that have no name yet.
LEMMA CrtKeeps ==
  ASSUME SurfInv, UNCHANGED <<site, obt, broken, newrows, mind, finished, unsaved>>,
         surffaults' \in Nat,
         minute' \in 0..MaxMinutes, crt'.formats # {} => minute' # 0,
         crt' \in [formats : SUBSET {"csv", "xml"}, stlist : Seq(Observers)],
         lines' \in [SurfFiles -> LineType],
         \A f \in Settled : lines'[f] = lines[f],
         Settled \subseteq Settled',
         surfdata' \subseteq surfdata \cup Settled',
         \A f \in SurfFiles \ Settled : f[1] = "csv" /\ lines'[f] # <<>> => lines'[f][1] = Title
  PROVE  SurfInv'
<1>1. /\ site' = site /\ obt' = obt /\ broken' = broken /\ newrows' = newrows /\ mind' = mind
      /\ finished' = finished /\ unsaved' = unsaved
  OBVIOUS
<1>2. SurfTypes'
  <2>1. Settled' \subseteq SurfFiles
    BY DEF Settled
  <2>. QED
    BY <1>1, <2>1 DEF SurfInv, SurfTypes, LineType
<1>3. finished \subseteq Settled /\ obt.todo \subseteq Settled /\ surfdata \subseteq Settled
  BY DEF SurfInv, LoaderOK
<1>4. obt.at \in {"rows", "commit"} => lines'[obt.file] = lines[obt.file]
  BY DEF SurfInv, LoaderOK
<1>5. \A f \in SurfFiles : f[1] = "csv" /\ lines'[f] # <<>> => lines'[f][1] = Title
  <2>1. \A f \in Settled : f[1] = "csv" /\ lines[f] # <<>> => lines[f][1] = Title
    BY DEF SurfInv, LoaderOK, Settled
  <2>. QED
    BY <2>1
<1>6. LoaderOK'
  BY <1>1, <1>3, <1>4, <1>5 DEF SurfInv, LoaderOK, ReadUpTo
<1>7. FinishedIsLoaded'
  BY <1>1, <1>3 DEF SurfInv, FinishedIsLoaded, DataOf
<1>. QED
  BY <1>2, <1>6, <1>7 DEF SurfInv

LEMMA CrtStartKeeps == SurfInv /\ CrtStart => SurfInv'
<1>. SUFFICES ASSUME SurfInv, CrtStart PROVE SurfInv'
  OBVIOUS
<1>1. /\ minute \in Nat /\ minute < MaxMinutes /\ minute' = minute + 1 /\ MaxMinutes \in Nat
      /\ lines \in [SurfFiles -> LineType] /\ surffaults \in Nat
      /\ UNCHANGED <<site, surffaults, lines, surfdata, obt, broken, newrows, mind, finished, unsaved>>
  BY SurfAssumption DEF CrtStart, SurfInv, SurfTypes, LineType, obtVars
<1>2. crt' \in [formats : SUBSET {"csv", "xml"}, stlist : Seq(Observers)]
  <2>1. PICK list \in Lists : crt' = [formats |-> IF site = "idc" THEN {"csv", "xml"} ELSE {"xml"},
                                      stlist |-> list]
    BY DEF CrtStart
  <2>2. list \in Seq(Observers)
    BY SurfAssumption
  <2>. QED
    BY <2>1, <2>2
<1>3. Settled \subseteq Settled'
  <2>1. \A f \in SurfFiles : f[2] \in Nat
    BY DEF SurfFiles
  <2>. QED
    BY <1>1, <2>1 DEF Settled
<1>4. \A f \in SurfFiles : f[1] = "csv" /\ lines[f] # <<>> => lines[f][1] = Title
  BY DEF SurfInv, LoaderOK
<1>. QED
  BY <1>1, <1>2, <1>3, <1>4, CrtKeeps

\* What is written begins with the title, if it is a csv file and anything is.
LEMMA ContentTypes ==
  ASSUME SurfInv, NEW format \in {"csv", "xml"}, crt.formats # {}
  PROVE  /\ Content(format) \in LineType
         /\ format = "csv" => Content(format)[1] = Title
         /\ \A n \in 0..Len(crt.stlist) : n < Len(Content(format)) =>
              /\ SubSeq(Content(format), 1, n) \in LineType
              /\ format = "csv" /\ SubSeq(Content(format), 1, n) # <<>> =>
                   SubSeq(Content(format), 1, n)[1] = Title
<1>1. crt.stlist \in Seq(Observers) /\ minute \in Nat /\ Len(crt.stlist) \in Nat
  BY DEF SurfInv, SurfTypes
<1>. DEFINE S == (Observers \X Nat) \cup {Title}
            observed == [i \in 1..Len(crt.stlist) |-> <<crt.stlist[i], minute>>]
<1>2. observed \in Seq(S) /\ <<Title>> \in Seq(S)
  BY <1>1
<1>. HIDE DEF S, observed
<1>3. <<Title>> \o observed \in Seq(S) /\ (<<Title>> \o observed)[1] = Title
  BY <1>2, ConcatProperties
<1>4. Content(format) = IF format = "csv" THEN <<Title>> \o observed ELSE observed
  BY DEF Content, observed
<1>5. Content(format) \in Seq(S) /\ (format = "csv" => Content(format)[1] = Title)
  BY <1>2, <1>3, <1>4
<1>6. ASSUME NEW n \in 0..Len(crt.stlist), n < Len(Content(format))
      PROVE  /\ SubSeq(Content(format), 1, n) \in Seq(S)
             /\ format = "csv" /\ SubSeq(Content(format), 1, n) # <<>> =>
                  SubSeq(Content(format), 1, n)[1] = Title
  <2>1. Len(Content(format)) \in Nat
    BY <1>5
  <2>2. /\ SubSeq(Content(format), 1, n) \in Seq(S)
        /\ Len(SubSeq(Content(format), 1, n)) = n
        /\ \A i \in 1..n : SubSeq(Content(format), 1, n)[i] = Content(format)[i]
    BY <1>1, <1>5, <1>6, <2>1
  <2>. QED
    BY <1>1, <1>5, <2>2
<1>. QED
  BY <1>5, <1>6 DEF S, LineType

\* A file gets its name, or is given up, and its format is done.
LEMMA CrtFileKeeps ==
  ASSUME SurfInv, surffaults' \in Nat, UNCHANGED <<site, minute, obtVars>>,
         NEW format \in crt.formats, crt' = [crt EXCEPT !.formats = @ \ {format}],
         \/ UNCHANGED <<lines, surfdata>>
         \/ Named(format, Content(format))
         \/ \E n \in 0..Len(crt.stlist) :
              n < Len(Content(format)) /\ Named(format, SubSeq(Content(format), 1, n))
  PROVE  SurfInv'
<1>1. /\ format \in {"csv", "xml"} /\ crt.formats # {} /\ minute \in 1..MaxMinutes
      /\ crt \in [formats : SUBSET {"csv", "xml"}, stlist : Seq(Observers)]
      /\ lines \in [SurfFiles -> LineType]
  BY SurfAssumption DEF SurfInv, SurfTypes, LoaderOK, LineType
<1>2. <<format, minute>> \in SurfFiles \ Settled
  BY <1>1 DEF Settled, SurfFiles
<1>3. /\ crt' \in [formats : SUBSET {"csv", "xml"}, stlist : Seq(Observers)]
      /\ crt'.formats = crt.formats \ {format} /\ minute' = minute
  BY <1>1
<1>4. Settled \subseteq Settled' /\ <<format, minute>> \in Settled'
  BY <1>2, <1>3 DEF Settled
<1>5. \A f \in SurfFiles : f[1] = "csv" /\ lines[f] # <<>> => lines[f][1] = Title
  BY DEF SurfInv, LoaderOK
<1>6. surfdata \subseteq Settled
  BY DEF SurfInv, LoaderOK
<1>7. UNCHANGED <<site, obt, broken, newrows, mind, finished, unsaved>>
  BY DEF obtVars
<1>8. CASE UNCHANGED <<lines, surfdata>>
  BY <1>1, <1>3, <1>4, <1>5, <1>7, <1>8, CrtKeeps
<1>9. ASSUME NEW content \in LineType, Named(format, content),
             format = "csv" /\ content # <<>> => content[1] = Title
      PROVE  SurfInv'
  <2>1. /\ lines' = [lines EXCEPT ![<<format, minute>>] = content]
        /\ surfdata' = surfdata \cup {<<format, minute>>}
    BY <1>9 DEF Named
  <2>2. lines' \in [SurfFiles -> LineType]
    BY <1>1, <2>1
  <2>3. \A f \in Settled : lines'[f] = lines[f]
    BY <1>1, <1>2, <2>1 DEF Settled
  <2>4. \A f \in SurfFiles : f[1] = "csv" /\ lines'[f] # <<>> => lines'[f][1] = Title
    BY <1>1, <1>2, <1>5, <1>9, <2>1
  <2>5. surfdata' \subseteq surfdata \cup Settled'
    BY <1>4, <2>1
  <2>6. minute' \in 0..MaxMinutes /\ minute' # 0
    BY <1>1, <1>3, SurfAssumption
  <2>. QED
    BY <1>3, <1>4, <1>7, <2>2, <2>3, <2>4, <2>5, <2>6, CrtKeeps
<1>10. CASE Named(format, Content(format))
  BY <1>1, <1>9, <1>10, ContentTypes
<1>11. ASSUME NEW n \in 0..Len(crt.stlist), n < Len(Content(format)),
              Named(format, SubSeq(Content(format), 1, n))
       PROVE  SurfInv'
  BY <1>1, <1>9, <1>11, ContentTypes
<1>. QED
  BY <1>8, <1>10, <1>11

-----------------------------------------------------------------------------
\* A step of the loader that ends nothing: what it has read is still kept.
LEMMA ObtKeeps ==
  ASSUME SurfInv, UNCHANGED <<site, crtVars, mind>>, surffaults' \in Nat,
         broken' \in BOOLEAN, surfdata' \subseteq surfdata,
         finished' \subseteq SurfFiles, unsaved' \subseteq SurfFiles,
         finished' \subseteq Settled, finished' \ unsaved' \subseteq finished \ unsaved,
         obt' \in [at : {"down", "file", "rows", "commit"}, todo : SUBSET SurfFiles,
                   file : SurfFiles \cup {<<"none", 0>>}, pos : Nat \ {0}],
         obt'.todo \subseteq Settled,
         obt'.at \in {"rows", "commit"} =>
           /\ obt'.file \in Settled
           /\ broken' \/ ReadUpTo(IF obt.at = "rows" THEN obt.pos ELSE Len(lines[obt.file]) + 1)'
  PROVE  SurfInv'
<1>1. /\ site' = site /\ crt' = crt /\ minute' = minute /\ lines' = lines /\ mind' = mind
  BY DEF crtVars
<1>2. SurfTypes'
  BY <1>1 DEF SurfInv, SurfTypes
<1>3. Settled' = Settled
  BY <1>1 DEF Settled
<1>4. LoaderOK'
  BY <1>1, <1>3 DEF SurfInv, LoaderOK
<1>5. FinishedIsLoaded'
  BY <1>1 DEF SurfInv, FinishedIsLoaded, DataOf
<1>. QED
  BY <1>2, <1>4, <1>5 DEF SurfInv

\* What the types and the invariant say of the loader.
LEMMA LoaderTypes ==
  ASSUME SurfInv
  PROVE  /\ obt \in [at : {"down", "file", "rows", "commit"}, todo : SUBSET SurfFiles,
                     file : SurfFiles \cup {<<"none", 0>>}, pos : Nat \ {0}]
         /\ broken \in BOOLEAN /\ surffaults \in Nat
         /\ surfdata \subseteq Settled /\ obt.todo \subseteq Settled /\ finished \subseteq Settled
         /\ Settled \subseteq SurfFiles
         /\ finished \subseteq SurfFiles /\ unsaved \subseteq SurfFiles
         /\ lines \in [SurfFiles -> LineType]
         /\ obt.at \in {"rows", "commit"} => obt.file \in Settled
BY DEF SurfInv, SurfTypes, LoaderOK, Settled, LineType

LEMMA ObtListKeeps == SurfInv /\ ObtList => SurfInv'
<1>. SUFFICES ASSUME SurfInv, ObtList PROVE SurfInv'
  OBVIOUS
<1>1. /\ obt' = [ObtDown EXCEPT !.at = "file", !.todo = surfdata] /\ broken' = FALSE
      /\ UNCHANGED <<site, surffaults, crtVars, surfdata, newrows, mind, finished, unsaved>>
  BY DEF ObtList
<1>2. /\ obt'.at = "file" /\ obt'.todo = surfdata
      /\ obt' \in [at : {"down", "file", "rows", "commit"}, todo : SUBSET SurfFiles,
                   file : SurfFiles \cup {<<"none", 0>>}, pos : Nat \ {0}]
  BY <1>1, LoaderTypes, DownTypes
<1>. QED
  BY <1>1, <1>2, LoaderTypes, ObtKeeps

\* The line that is thrown away is the title.
LEMMA ObtOpenKeeps == SurfInv /\ ObtOpen => SurfInv'
<1>. SUFFICES ASSUME SurfInv, ObtOpen PROVE SurfInv'
  OBVIOUS
<1>1. PICK f \in obt.todo :
        obt' = IF f \in surfdata
               THEN [obt EXCEPT !.at = "rows", !.file = f, !.pos = FirstLine(f)]
               ELSE ObtDown
  BY DEF ObtOpen
<1>2. UNCHANGED <<site, surffaults, crtVars, surfdata, broken, newrows, mind, finished, unsaved>>
  BY DEF ObtOpen
<1>3. f \in Settled /\ f \in SurfFiles /\ FirstLine(f) \in {1, 2}
  BY LoaderTypes DEF FirstLine
<1>4. CASE f \notin surfdata
  <2>1. obt' = ObtDown /\ ObtDown.at = "down" /\ ObtDown.todo = {}
    BY <1>1, <1>4 DEF ObtDown
  <2>. QED
    BY <1>2, <2>1, LoaderTypes, DownTypes, ObtKeeps
<1>5. CASE f \in surfdata
  <2>1. /\ obt'.at = "rows" /\ obt'.file = f /\ obt'.pos = FirstLine(f) /\ obt'.todo = obt.todo
        /\ obt' \in [at : {"down", "file", "rows", "commit"}, todo : SUBSET SurfFiles,
                     file : SurfFiles \cup {<<"none", 0>>}, pos : Nat \ {0}]
    <3>1. obt' = [obt EXCEPT !.at = "rows", !.file = f, !.pos = FirstLine(f)]
      BY <1>1, <1>5
    <3>2. FirstLine(f) \in Nat \ {0}
      BY <1>3
    <3>. HIDE DEF FirstLine
    <3>. QED
      BY <1>3, <3>1, <3>2, LoaderTypes
  <2>2. f[1] = "csv" /\ lines[f] # <<>> => lines[f][1] = Title
    BY <1>3 DEF SurfInv, LoaderOK
  <2>3. lines' = lines /\ Len(lines[f]) \in Nat
    BY <1>2, <1>3, LoaderTypes DEF crtVars, LineType
  <2>4. ASSUME NEW i \in 1..Len(lines[f]), i < FirstLine(f)
        PROVE  lines[f][i] = Title
    <3>1. i = 1 /\ f[1] = "csv" /\ lines[f] # <<>>
      BY <2>3, <2>4 DEF FirstLine
    <3>. QED
      BY <2>2, <3>1
  <2>5. ReadUpTo(IF obt.at = "rows" THEN obt.pos ELSE Len(lines[obt.file]) + 1)'
    BY <2>1, <2>3, <2>4 DEF ReadUpTo
  <2>. QED
    BY <1>2, <1>3, <2>1, <2>5, LoaderTypes, ObtKeeps
<1>. QED
  BY <1>4, <1>5

\* A row is kept unless the table refuses it, or the session has gone.
LEMMA ObtRowKeeps == SurfInv /\ ObtRow => SurfInv'
<1>. SUFFICES ASSUME SurfInv, ObtRow PROVE SurfInv'
  OBVIOUS
<1>1. /\ obt.at = "rows" /\ obt.pos \in 1..Len(lines[obt.file]) /\ obt.file \in Settled
      /\ obt' = [obt EXCEPT !.pos = @ + 1]
      /\ newrows' = IF broken \/ lines[obt.file][obt.pos] \in Refused THEN newrows
                    ELSE newrows \cup {lines[obt.file][obt.pos]}
      /\ UNCHANGED <<site, surffaults, crtVars, surfdata, broken, mind, finished, unsaved>>
  BY LoaderTypes DEF ObtRow
<1>2. /\ obt'.at = "rows" /\ obt'.file = obt.file /\ obt'.pos = obt.pos + 1
      /\ obt'.todo = obt.todo
      /\ obt' \in [at : {"down", "file", "rows", "commit"}, todo : SUBSET SurfFiles,
                   file : SurfFiles \cup {<<"none", 0>>}, pos : Nat \ {0}]
  BY <1>1, LoaderTypes
<1>3. lines' = lines /\ newrows \subseteq newrows'
  BY <1>1 DEF crtVars
<1>4. ASSUME ~broken
      PROVE  ReadUpTo(IF obt.at = "rows" THEN obt.pos ELSE Len(lines[obt.file]) + 1)'
  <2>1. ReadUpTo(obt.pos)
    BY <1>1, <1>4 DEF SurfInv, LoaderOK
  <2>2. lines[obt.file][obt.pos] \in newrows' \cup Refused
    BY <1>1, <1>4
  <2>. QED
    BY <1>1, <1>2, <1>3, <2>1, <2>2 DEF ReadUpTo
<1>. QED
  BY <1>1, <1>2, <1>4, LoaderTypes, ObtKeeps

LEMMA ObtRemoveKeeps == SurfInv /\ ObtRemove => SurfInv'
<1>. SUFFICES ASSUME SurfInv, ObtRemove PROVE SurfInv'
  OBVIOUS
<1>1. /\ obt.at = "rows" /\ obt.pos > Len(lines[obt.file]) /\ obt.file \in Settled
      /\ obt' = [obt EXCEPT !.at = "commit"] /\ surfdata' \subseteq surfdata
      /\ UNCHANGED <<site, surffaults, crtVars, broken, newrows, mind, finished, unsaved>>
  BY LoaderTypes DEF ObtRemove
<1>2. /\ obt'.at = "commit" /\ obt'.file = obt.file /\ obt'.todo = obt.todo
      /\ obt' \in [at : {"down", "file", "rows", "commit"}, todo : SUBSET SurfFiles,
                   file : SurfFiles \cup {<<"none", 0>>}, pos : Nat \ {0}]
  BY <1>1, LoaderTypes
<1>3. lines' = lines /\ newrows' = newrows /\ Len(lines[obt.file]) \in Nat /\ obt.pos \in Nat
  BY <1>1, LoaderTypes DEF crtVars, LineType
<1>4. ASSUME ~broken
      PROVE  ReadUpTo(IF obt.at = "rows" THEN obt.pos ELSE Len(lines[obt.file]) + 1)'
  <2>1. ReadUpTo(obt.pos)
    BY <1>1, <1>4 DEF SurfInv, LoaderOK
  <2>. QED
    BY <1>1, <1>2, <1>3, <2>1 DEF ReadUpTo
<1>. QED
  BY <1>1, <1>2, <1>4, LoaderTypes, ObtKeeps

\* A file of which every line was read, and not by a session that was lost, has
\* its rows in the table with the commit.
LEMMA ObtCommitKeeps == SurfInv /\ ObtCommit => SurfInv'
<1>. SUFFICES ASSUME SurfInv, ObtCommit PROVE SurfInv'
  OBVIOUS
<1>1. /\ obt.at = "commit" /\ obt.file \in Settled /\ obt' = AfterFile(obt.file)
      /\ newrows' = {} /\ mind' = mind \cup newrows
      /\ finished' = finished \cup {obt.file}
      /\ unsaved' = IF broken THEN unsaved \cup {obt.file} ELSE unsaved \ {obt.file}
      /\ site' = site /\ surffaults' = surffaults /\ surfdata' = surfdata /\ broken' = broken
      /\ crt' = crt /\ minute' = minute /\ lines' = lines
  BY LoaderTypes DEF ObtCommit, crtVars
<1>2. /\ obt'.at \in {"down", "file"} /\ obt'.todo \subseteq obt.todo
      /\ obt' \in [at : {"down", "file", "rows", "commit"}, todo : SUBSET SurfFiles,
                   file : SurfFiles \cup {<<"none", 0>>}, pos : Nat \ {0}]
  BY <1>1, LoaderTypes, DownTypes DEF AfterFile, ObtDown
<1>3. SurfTypes'
  BY <1>1, <1>2, LoaderTypes DEF SurfInv, SurfTypes
<1>4. Settled' = Settled
  BY <1>1 DEF Settled
<1>5. LoaderOK'
  BY <1>1, <1>2, <1>4, LoaderTypes DEF SurfInv, LoaderOK
<1>6. ASSUME ~broken
      PROVE  DataOf(obt.file) \ Refused \subseteq newrows
  <2>1. ReadUpTo(Len(lines[obt.file]) + 1) /\ Len(lines[obt.file]) \in Nat
    BY <1>1, <1>6, LoaderTypes DEF SurfInv, LoaderOK, LineType
  <2>. QED
    BY <2>1 DEF ReadUpTo, DataOf
<1>7. \A f \in SurfFiles : DataOf(f)' = DataOf(f)
  BY <1>1 DEF DataOf
<1>8. FinishedIsLoaded'
  BY <1>1, <1>6, <1>7, LoaderTypes DEF SurfInv, FinishedIsLoaded
<1>. QED
  BY <1>3, <1>5, <1>8 DEF SurfInv

LEMMA SurfFaultKeeps == SurfInv /\ SurfFault => SurfInv'
<1>. SUFFICES ASSUME SurfInv, SurfFault PROVE SurfInv'
  OBVIOUS
<1>1. surffaults' \in Nat /\ site' = site
  BY LoaderTypes DEF SurfFault
<1>2. CASE CrtFileCut
  BY <1>1, <1>2, CrtFileKeeps DEF CrtFileCut
<1>3. CASE SessionBreaks
  <2>1. /\ broken' = TRUE
        /\ UNCHANGED <<crtVars, surfdata, obt, mind, finished, unsaved>>
    BY <1>3 DEF SessionBreaks
  <2>. QED
    BY <1>1, <2>1, LoaderTypes, ObtKeeps
<1>4. CASE crt' = CrtDown /\ UNCHANGED <<minute, lines, surfdata, obtVars>>
  <2>1. /\ CrtDown.formats = {} /\ minute' = minute /\ lines' = lines /\ surfdata' = surfdata
        /\ UNCHANGED <<site, obt, broken, newrows, mind, finished, unsaved>>
    BY <1>1, <1>4 DEF CrtDown, obtVars
  <2>2. Settled \subseteq Settled'
    BY <1>4, <2>1 DEF Settled
  <2>3. \A f \in SurfFiles : f[1] = "csv" /\ lines[f] # <<>> => lines[f][1] = Title
    BY DEF SurfInv, LoaderOK
  <2>4. minute \in 0..MaxMinutes
    BY DEF SurfInv, SurfTypes
  <2>. QED
    BY <1>1, <1>4, <2>1, <2>2, <2>3, <2>4, LoaderTypes, DownTypes, CrtKeeps
<1>5. CASE /\ obt.at # "down" /\ obt' = ObtDown /\ newrows' = {}
           /\ LET gone == IF obt.at = "commit" /\ site = "idc" THEN {obt.file} ELSE {} IN
              finished' = finished \cup gone /\ unsaved' = unsaved \cup gone
           /\ UNCHANGED <<crtVars, surfdata, broken, mind>>
  <2>1. PICK gone \in SUBSET Settled :
           finished' = finished \cup gone /\ unsaved' = unsaved \cup gone
    BY <1>5, LoaderTypes
  <2>2. ObtDown.at = "down" /\ ObtDown.todo = {}
    BY DEF ObtDown
  <2>3. /\ finished' \subseteq Settled /\ finished' \subseteq SurfFiles /\ unsaved' \subseteq SurfFiles
        /\ finished' \ unsaved' \subseteq finished \ unsaved
    BY <2>1, LoaderTypes
  <2>. QED
    BY <1>1, <1>5, <2>2, <2>3, LoaderTypes, DownTypes, ObtKeeps
<1>. QED
  BY <1>2, <1>3, <1>4, <1>5 DEF SurfFault, ProcessDies

LEMMA SurfKept == SurfInv /\ [SurfNext]_surfVars => SurfInv'
<1>. SUFFICES ASSUME SurfInv, [SurfNext]_surfVars PROVE SurfInv'
  OBVIOUS
<1>1. CASE CrtFile
  BY <1>1, LoaderTypes, CrtFileKeeps DEF CrtFile
<1>2. CASE CleanUp \/ UNCHANGED surfVars
  BY <1>2, LoaderTypes, LoaderRests DEF CleanUp, surfVars, crtVars, obtVars
<1>. QED
  BY <1>1, <1>2, CrtStartKeeps, ObtListKeeps, ObtOpenKeeps, ObtRowKeeps, ObtRemoveKeeps,
     ObtCommitKeeps, SurfFaultKeeps DEF SurfNext, Crtsurfdata, Obtmindtodb

(* For any stations, lists and number of minutes and faults: a file that   *)
(* the loader is done with has its rows in T_ZHOBTMIND, or the session     *)
(* broke, or the process died between the removal of the file and the      *)
(* commit (观测数据入库(封装).cpp:140-141).                                *)
THEOREM FinishedIsLoadedCorrect == SurfSpec => []FinishedIsLoaded
<1>1. SurfInv => FinishedIsLoaded
  BY DEF SurfInv
<1>. QED
  BY <1>1, SurfInitially, SurfKept, PTL DEF SurfSpec

-----------------------------------------------------------------------------
(* The FTP client.                                                         *)

FtpSteps == Commands \cup {"offline", "ready", "accept", "move", "close", "giveup",
                           "checktime", "checklocal", "checksize"}
ClientType == [call : {"none", "get", "put", "nlist", "other"}, step : FtpSteps,
               waits : BOOLEAN, mtime : Nat, value : Nat]
ReplyType == [no : Nat, code : {"1", "2", "3", "4", "5"}, value : Nat]
DataType == [at : {"none", "listen", "open", "ended", "broken"}, blocks : Seq(Nat), moved : Nat]

FtpTypes ==
  /\ ftpclient \in ClientType /\ sent \in Nat
  /\ response \in [no : Nat, code : {"1", "2", "3", "4", "5", "t"}]
  /\ replies \in Seq(ReplyType) /\ session \in Commands \cup {"idle", "transfer"}
  /\ data \in DataType /\ original \in [version : Nat, mtime : Nat]
  /\ tmpcopy \in Seq(Nat) /\ copy \in Seq(Nat) /\ cut \in BOOLEAN /\ unseen \in BOOLEAN

Quiet == replies = <<>> /\ session = "idle"

\* Of a transfer that has begun the last reply is still to come.
LastReplyOK(q) == q.no = sent /\ (data.at = "listen" => q.code = "4")
Owed == \/ replies = <<>> /\ session = "transfer"
        \/ session = "idle" /\ Len(replies) = 1 /\ LastReplyOK(replies[1])

\* The client waits for the reply to its command.
Awaits(step) ==
  \/ replies = <<>> /\ session = step
  \/ /\ session = "idle" /\ Len(replies) = 1 /\ replies[1].no = sent
     /\ step = "xfer" => replies[1].code \in {"4", "5"}
  \/ /\ step = "xfer" /\ replies # <<>> /\ replies[1].no = sent /\ replies[1].code = "1"
     /\ \/ session = "transfer" /\ Len(replies) = 1
        \/ session = "idle" /\ Len(replies) = 2 /\ LastReplyOK(replies[2])

\* What is on its way on the control connection, from the step of the client.
ControlOK ==
  LET step == ftpclient.step IN
  IF ftpclient.waits
  THEN \/ step \in Commands /\ Awaits(step)
       \/ step \in {"close", "giveup"} /\ Owed
  ELSE /\ response.no \in {0, sent}
       /\ CASE step \in {"accept", "move", "close"} -> response.code = "1" /\ Owed
            [] step = "giveup" -> \/ response.code \in {"4", "5"} /\ Quiet
                                  \/ response.code \in {"1", "t"} /\ Owed
            [] OTHER -> Quiet

-----------------------------------------------------------------------------
\* A content of one version v; of any one version.
AllOf(content, v) == \A i \in 1..Len(content) : content[i] = v
Same(content) == \A i \in 1..Len(content) : content[i] = content[1]

\* The file is the one whose time the client has.
Current == ~unseen /\ original.mtime = ftpclient.mtime
GotReply(code) == ftpclient.waits /\ replies # <<>> /\ replies[1].code = code
Began == \/ ftpclient.step = "xfer" /\ GotReply("1")
         \/ ftpclient.step \in {"accept", "move", "close"}

\* The steps of get() only, and of put() only.
CallOK ==
  /\ ftpclient.step \in {"mtime", "mtime2", "checktime"} => ftpclient.call = "get"
  /\ ftpclient.step \in {"checklocal", "rename", "renameto", "typesize", "size", "checksize"} =>
       ftpclient.call = "put"

\* From the time the client learns the time of the file to the end of the transfer.
TimeOK ==
  /\ ftpclient.step = "mtime" /\ GotReply("2") => replies[1].value <= original.mtime
  /\ ftpclient.call \in {"get", "put"} /\ ftpclient.step \in
       {"type", "port", "xfer", "accept", "move", "close", "mtime2", "checklocal"} =>
         original.mtime >= ftpclient.mtime

EmptyData == data.blocks = <<>> /\ data.moved = 0 /\ data.at = "listen"

\* A transfer begins with nothing in the data connection and, in a get(), an empty
\* temporary file,
BeforeOK ==
  /\ ftpclient.call = "get" /\ (ftpclient.step \in {"type", "port"} \/ (ftpclient.step = "xfer" /\ ~Began)) => tmpcopy = <<>>
  /\ ftpclient.step = "port" /\ GotReply("2") => EmptyData
  /\ ftpclient.step = "xfer" /\ ~Began => EmptyData

\* and during it what was sent is in one of the two, all of the version whose time
\* the client has, unless the file has another time by now.
TransferOK ==
  Began =>
    /\ ftpclient.call \in {"get", "put"} /\ Current =>
         AllOf(data.blocks, original.version) /\ AllOf(tmpcopy, original.version)
    /\ ftpclient.call = "get" /\ ~cut =>
         /\ Len(tmpcopy) + Len(data.blocks) = data.moved
         /\ data.at = "ended" => data.moved = Blocks
         /\ data.at # "broken"
    /\ ftpclient.call = "get" /\ ftpclient.step = "close" =>
         data.blocks = <<>> /\ data.at \in {"ended", "broken"}

\* After it: if the time that MDTM tells is the same, nothing was rewritten.
GotOK ==
  /\ ftpclient.step \in {"mtime2", "checktime"} /\ ~cut => Len(tmpcopy) = Blocks
  /\ ftpclient.step \in {"mtime2", "checklocal"} /\ Current => AllOf(tmpcopy, original.version)
  /\ ftpclient.step = "mtime2" /\ GotReply("2") /\ ~unseen /\ replies[1].value = ftpclient.mtime =>
       Same(tmpcopy)
  /\ ftpclient.step = "checktime" /\ ~unseen /\ ftpclient.value = ftpclient.mtime => Same(tmpcopy)

\* Of a put(), whether the server has renamed the file: before it the temporary file
\* is of one version, after it the copy.
Renamed == \/ ftpclient.step = "renameto" /\ GotReply("2")
           \/ ftpclient.step \in {"typesize", "size", "checksize"}
PutOK ==
  /\ ftpclient.step \in {"rename", "renameto"} /\ ~Renamed /\ ~unseen => Same(tmpcopy)
  /\ Renamed /\ ~unseen => Same(copy)
  /\ ftpclient.step = "size" /\ GotReply("2") => replies[1].value = Len(copy)
  /\ ftpclient.step = "checksize" => ftpclient.value = Len(copy)

FilesOK == CallOK /\ TimeOK /\ BeforeOK /\ TransferOK /\ GotOK /\ PutOK

-----------------------------------------------------------------------------
LEMMA CommandsAre ==
  /\ Commands = {"user", "pass", "mtime", "type", "port", "xfer", "mtime2", "rename", "renameto",
                 "typesize", "size", "remove", "removefinal", "other"}
  /\ \A c \in Commands : Expects[c] \in {"1", "2", "3"}
  /\ \A c \in Commands : Expects[c] = "1" <=> c = "xfer"
  /\ \A c \in {"mtime", "port", "mtime2", "renameto", "size"} : Expects[c] = "2"
BY DEF Commands, Expects

LEMMA StepsAre ==
  /\ \A c \in Commands : NextStep(c) \in FtpSteps
  /\ \A c \in Commands, code \in {"1", "2", "3", "4", "5"} : StepRefused(c, code) \in FtpSteps
BY CommandsAre DEF NextStep, StepRefused, FtpSteps

LEMMA GotoIs ==
  ASSUME ftpclient \in ClientType, NEW step, Goto(step)
  PROVE  /\ ftpclient'.call = ftpclient.call /\ ftpclient'.step = step
         /\ ftpclient'.waits = FALSE /\ ftpclient'.mtime = ftpclient.mtime
         /\ ftpclient'.value = ftpclient.value
         /\ step \in FtpSteps => ftpclient' \in ClientType
BY DEF Goto, ClientType

LEMMA OfflineType == /\ Offline \in ClientType /\ NoData \in DataType
                     /\ NoReply \in [no : Nat, code : {"1", "2", "3", "4", "5", "t"}]
<1>1. <<>> \in Seq(Nat)
  OBVIOUS
<1>. QED  BY <1>1 DEF Offline, NoData, NoReply, ClientType, DataType, FtpSteps

LEMMA HungUpTypes == ASSUME FtpTypes, HungUp, UNCHANGED fileVars PROVE FtpTypes'
<1>1. <<>> \in Seq(ReplyType)
  OBVIOUS
<1>. QED  BY <1>1, OfflineType DEF HungUp, FtpTypes, fileVars

LEMMA ReplyAdded ==
  ASSUME FtpTypes, NEW code \in {"1", "2", "3", "4", "5"}, NEW value \in Nat
  PROVE  /\ Reply(code, value) \in Seq(ReplyType)
         /\ Reply(code, value) = Append(replies, [no |-> sent, code |-> code, value |-> value])
<1>1. [no |-> sent, code |-> code, value |-> value] \in ReplyType
  BY DEF FtpTypes, ReplyType
<1>. QED  BY <1>1 DEF Reply, FtpTypes

LEMMA ReplyRead ==
  ASSUME FtpTypes, ReadReply
  PROVE  /\ replies # <<>> /\ Head(replies) = replies[1] /\ replies[1] \in ReplyType
         /\ replies' = Tail(replies) /\ replies' \in Seq(ReplyType)
         /\ response' = [no |-> replies[1].no, code |-> replies[1].code]
         /\ response' \in [no : Nat, code : {"1", "2", "3", "4", "5", "t"}]
<1>1. replies # <<>> /\ replies \in Seq(ReplyType)
  BY DEF ReadReply, FtpTypes
<1>2. Head(replies) = replies[1] /\ replies[1] \in ReplyType /\ Tail(replies) \in Seq(ReplyType)
  BY <1>1
<1>. QED  BY <1>1, <1>2 DEF ReadReply, ReplyType

\* Where the blocks are.
LEMMA BlockMoved ==
  ASSUME FtpTypes
  PROVE  /\ Moved \in DataType /\ Moved.at = data.at /\ Moved.moved = data.moved + 1
         /\ Moved.blocks = Append(data.blocks, original.version)
         /\ data.blocks # <<>> =>
              /\ Took \in DataType /\ Took.at = data.at /\ Took.moved = data.moved
              /\ Took.blocks = Tail(data.blocks)
              /\ Append(tmpcopy, Head(data.blocks)) \in Seq(Nat)
<1>1. data.blocks \in Seq(Nat) /\ original.version \in Nat /\ data \in DataType
  BY DEF FtpTypes, DataType
<1>2. Append(data.blocks, original.version) \in Seq(Nat)
  BY <1>1
<1>3. data.blocks # <<>> => Tail(data.blocks) \in Seq(Nat) /\ Head(data.blocks) \in Nat
  BY <1>1
<1>4. /\ Moved \in DataType /\ Moved.at = data.at /\ Moved.moved = data.moved + 1
      /\ Moved.blocks = Append(data.blocks, original.version)
  <2>1. data.moved + 1 \in Nat
    BY <1>1 DEF DataType
  <2>2. Moved = [data EXCEPT !.blocks = Append(data.blocks, original.version), !.moved = data.moved + 1]
    BY DEF Moved
  <2>. QED  BY <1>1, <1>2, <2>1, <2>2 DEF DataType
<1>5. ASSUME data.blocks # <<>>
      PROVE  /\ Took \in DataType /\ Took.at = data.at /\ Took.moved = data.moved
             /\ Took.blocks = Tail(data.blocks)
  BY <1>1, <1>3, <1>5 DEF Took, DataType
<1>6. data.blocks # <<>> => Append(tmpcopy, Head(data.blocks)) \in Seq(Nat)
  BY <1>3 DEF FtpTypes
<1>. QED  BY <1>4, <1>5, <1>6

LEMMA ClosedTypes == ASSUME FtpTypes PROVE ClosedData \in DataType /\ OpenPort \in DataType
BY OfflineType DEF FtpTypes, DataType, ClosedData, OpenPort

-----------------------------------------------------------------------------
(* For any number of blocks, versions, commands and faults: the state of   *)
(* the client, the server and their two connections has its types.         *)
THEOREM FtpTypesCorrect == FtpSpec => []FtpTypes
<1>. USE FtpAssumption
<1>1. FtpInit => FtpTypes
  <2>1. <<>> \in Seq(ReplyType) /\ <<>> \in Seq(Nat)
    OBVIOUS
  <2>2. [version |-> 1, mtime |-> 1] \in [version : Nat, mtime : Nat]
    OBVIOUS
  <2>. SUFFICES ASSUME FtpInit PROVE FtpTypes
    OBVIOUS
  <2>3. /\ ftpclient \in ClientType /\ response \in [no : Nat, code : {"1", "2", "3", "4", "5", "t"}]
        /\ data \in DataType
    BY OfflineType DEF FtpInit
  <2>4. /\ sent \in Nat /\ replies \in Seq(ReplyType) /\ session \in Commands \cup {"idle", "transfer"}
        /\ tmpcopy \in Seq(Nat) /\ copy \in Seq(Nat) /\ cut \in BOOLEAN /\ unseen \in BOOLEAN
    BY <2>1 DEF FtpInit
  <2>5. original \in [version : Nat, mtime : Nat]
    BY <2>2 DEF FtpInit
  <2>. QED  BY <2>3, <2>4, <2>5 DEF FtpTypes
<1>2. FtpTypes /\ [FtpNext]_ftpVars => FtpTypes'
  <2>. SUFFICES ASSUME FtpTypes, [FtpNext]_ftpVars PROVE FtpTypes'
    OBVIOUS
  <2>e. <<>> \in Seq(ReplyType) /\ <<>> \in Seq(Nat)
    OBVIOUS
  <2>r. \A code \in {"2", "4", "5"} : Reply(code, 0) \in Seq(ReplyType)
    BY ReplyAdded
  <2>1. CASE UNCHANGED ftpVars
    BY <2>1 DEF ftpVars, fileVars, serverVars, FtpTypes
  <2>2. CASE FtpConnect
    BY <2>2, CommandsAre, OfflineType DEF FtpConnect, FtpTypes, ClientType, FtpSteps, fileVars, serverVars
  <2>3. CASE FtpQuit
    BY <2>3, HungUpTypes DEF FtpQuit
  <2>4. CASE Call
    <3>1. ftpclient \in ClientType /\ original.mtime \in Nat
      BY DEF FtpTypes
    <3>2. ASSUME NEW call \in {"get", "put", "nlist", "other"}, NEW step \in FtpSteps
          PROVE  /\ [ftpclient EXCEPT !.call = call, !.step = step] \in ClientType
                 /\ [ftpclient EXCEPT !.call = call, !.step = step, !.mtime = original.mtime] \in ClientType
      BY <3>1 DEF ClientType
    <3>3. {"mtime", "type", "other"} \subseteq FtpSteps
      BY CommandsAre DEF FtpSteps
    <3>4. ftpclient' \in ClientType
      <4>1. CASE ftpclient' = [ftpclient EXCEPT !.call = "get", !.step = "mtime"]
        BY <3>2, <3>3, <4>1
      <4>2. CASE ftpclient' = [ftpclient EXCEPT !.call = "put", !.step = "type", !.mtime = original.mtime]
        BY <3>2, <3>3, <4>2
      <4>3. CASE ftpclient' = [ftpclient EXCEPT !.call = "nlist", !.step = "type"]
        BY <3>2, <3>3, <4>3
      <4>4. CASE ftpclient' = [ftpclient EXCEPT !.call = "other", !.step = "other"]
        BY <3>2, <3>3, <4>4
      <4>. QED  BY <2>4, <4>1, <4>2, <4>3, <4>4 DEF Call
    <3>. QED  BY <2>4, <3>4 DEF Call, FtpTypes, serverVars
  <2>5. CASE SendCmd
    <3>0. ftpclient \in ClientType /\ sent \in Nat
      BY DEF FtpTypes
    <3>1. ftpclient' \in ClientType
      BY <2>5, <3>0 DEF SendCmd, ClientType
    <3>2. session' \in Commands /\ sent' \in Nat
      BY <2>5, <3>0 DEF SendCmd
    <3>. QED  BY <2>5, <3>1, <3>2 DEF SendCmd, FtpTypes, fileVars
  <2>6. CASE Obey
    <3>1. session \in Commands /\ Expects[session] \in {"1", "2", "3", "4", "5"}
      BY <2>6, CommandsAre DEF Obey
    <3>2. Value(session) \in Nat
      BY DEF Value, FtpTypes
    <3>3. Reply(Expects[session], Value(session)) \in Seq(ReplyType) /\ Reply("2", 0) \in Seq(ReplyType)
      BY <3>1, <3>2, ReplyAdded
    <3>4. tmpcopy' \in Seq(Nat) /\ copy' \in Seq(Nat)
      BY <2>6, <2>e DEF Obey, FtpTypes
    <3>. QED  BY <2>6, <3>3, <3>4, ClosedTypes DEF Obey, FtpTypes
  <2>7. CASE ReadResp
    <3>1. tmpcopy' \in Seq(Nat)
      BY <2>7, <2>e DEF ReadResp, FtpTypes
    <3>2. ftpclient' \in ClientType
      <4>1. ReadReply /\ ftpclient.step \in Commands
        BY <2>7 DEF ReadResp
      <4>2. /\ Head(replies).value \in Nat /\ Head(replies).code \in {"1", "2", "3", "4", "5"}
        BY <4>1, ReplyRead DEF ReplyType
      <4>. QED  BY <2>7, <4>1, <4>2, StepsAre DEF ReadResp, FtpTypes, ClientType
    <3>. QED  BY <2>7, <3>1, <3>2, ReplyRead DEF ReadResp, FtpTypes
  <2>8. CASE Dial
    BY <2>8 DEF Dial, FtpTypes, DataType, fileVars
  <2>9. CASE AcceptData \/ AcceptReply
    BY <2>9, GotoIs, ReplyRead DEF AcceptData, AcceptReply, FtpTypes, FtpSteps, fileVars, serverVars
  <2>10. CASE ServerSends
    <3>1. data' \in DataType /\ replies' \in Seq(ReplyType) /\ session' \in Commands \cup {"idle", "transfer"}
      BY <2>10, <2>r, BlockMoved DEF ServerSends, FtpTypes, DataType
    <3>. QED  BY <2>10, <3>1 DEF ServerSends, FtpTypes, fileVars
  <2>11. CASE ClientReads
    BY <2>11, BlockMoved, GotoIs DEF ClientReads, FtpTypes, FtpSteps
  <2>12. CASE ClientWrites
    <3>1. CASE HungUp
      BY <2>12, <3>1, HungUpTypes DEF ClientWrites
    <3>2. CASE ~HungUp
      BY <2>12, <3>2, BlockMoved, GotoIs DEF ClientWrites, FtpTypes, FtpSteps, fileVars, serverVars
    <3>. QED  BY <3>1, <3>2
  <2>13. CASE ServerReads
    <3>1. /\ data' \in DataType /\ replies' \in Seq(ReplyType) /\ tmpcopy' \in Seq(Nat)
          /\ session' \in Commands \cup {"idle", "transfer"}
      BY <2>13, <2>r, BlockMoved DEF ServerReads, FtpTypes
    <3>. QED  BY <2>13, <3>1 DEF ServerReads, FtpTypes
  <2>14. CASE ServerAborts
    BY <2>14, ReplyAdded DEF ServerAborts, FtpTypes, fileVars
  <2>15. CASE CloseData
    BY <2>15, ClosedTypes, GotoIs DEF CloseData, FtpTypes, FtpSteps, ClientType, fileVars
  <2>16. CASE LastReply
    <3>1. AfterTransfer \in FtpSteps
      BY CommandsAre DEF AfterTransfer, FtpSteps
    <3>. QED  BY <2>16, <3>1, GotoIs, ReplyRead DEF LastReply, FtpTypes, fileVars
  <2>17. CASE CheckGet
    BY <2>17, <2>e, GotoIs DEF CheckGet, ReturnTrue, FtpTypes, FtpSteps, serverVars
  <2>18. CASE CheckPut
    <3>1. ftpclient' \in ClientType
      BY <2>18, GotoIs, CommandsAre DEF CheckPut, ReturnTrue, FtpTypes, FtpSteps
    <3>. QED  BY <2>18, <3>1 DEF CheckPut, FtpTypes, serverVars
  <2>19. CASE Rewrite
    BY <2>19 DEF Rewrite, FtpTypes, serverVars
  <2>20. CASE FtpFault
    <3>1. CASE Refuse
      BY <2>20, <3>1, <2>r DEF FtpFault, Refuse, FtpTypes, fileVars
    <3>2. CASE BreakData
      BY <2>20, <3>2, <2>e DEF FtpFault, BreakData, FtpTypes, DataType
    <3>3. CASE NoDial
      BY <2>20, <3>3, ReplyAdded DEF FtpFault, NoDial, FtpTypes, fileVars
    <3>4. CASE AcceptTimeout
      BY <2>20, <3>4, GotoIs, OfflineType DEF FtpFault, AcceptTimeout, FtpTypes, FtpSteps, fileVars
    <3>5. CASE DiskFull
      <4>1. data' \in DataType
        BY <2>e, <3>5, BlockMoved DEF DiskFull, FtpTypes, DataType
      <4>2. replies' \in Seq(ReplyType) /\ session' \in Commands \cup {"idle", "transfer"}
        BY <3>5, <2>r DEF DiskFull, FtpTypes
      <4>3. ftpclient' \in ClientType
        BY <3>5, GotoIs DEF DiskFull, FtpTypes, FtpSteps
      <4>. QED  BY <2>20, <3>5, <4>1, <4>2, <4>3 DEF FtpFault, DiskFull, FtpTypes
    <3>6. CASE Hangup
      BY <2>20, <3>6, HungUpTypes DEF FtpFault, Hangup
    <3>. QED  BY <2>20, <3>1, <3>2, <3>3, <3>4, <3>5, <3>6 DEF FtpFault
  <2>. QED  BY <2>1, <2>2, <2>3, <2>4, <2>5, <2>6, <2>7, <2>8, <2>9, <2>10, <2>11, <2>12, <2>13, <2>14,
               <2>15, <2>16, <2>17, <2>18, <2>19, <2>20 DEF FtpNext
<1>. QED  BY <1>1, <1>2, PTL DEF FtpSpec
-----------------------------------------------------------------------------
(* The order of the replies.                                               *)

LEMMA RepliesGrow ==
  ASSUME FtpTypes, NEW code \in {"1", "2", "3", "4", "5"}, NEW value \in Nat,
         replies' = Reply(code, value)
  PROVE  /\ replies' # <<>>
         /\ replies = <<>> =>
              Len(replies') = 1 /\ replies'[1] = [no |-> sent, code |-> code, value |-> value]
         /\ Len(replies) = 1 =>
              /\ Len(replies') = 2 /\ replies'[1] = replies[1]
              /\ replies'[2] = [no |-> sent, code |-> code, value |-> value]
<1> DEFINE r == [no |-> sent, code |-> code, value |-> value]
<1>1. r \in ReplyType
  BY DEF FtpTypes, ReplyType
<1>2. replies \in Seq(ReplyType) /\ replies' = Append(replies, r)
  BY ReplyAdded DEF FtpTypes
<1>. HIDE DEF r
<1>3. /\ Len(replies') = Len(replies) + 1 /\ replies'[Len(replies) + 1] = r
      /\ \A i \in 1..Len(replies) : replies'[i] = replies[i]
  BY <1>1, <1>2
<1>4. replies' # <<>>
  BY <1>1, <1>2
<1>5. replies = <<>> => Len(replies) = 0
  OBVIOUS
<1>6. replies = <<>> => Len(replies') = 1 /\ replies'[1] = r
  BY <1>3, <1>5
<1>7. Len(replies) = 1 => Len(replies') = 2 /\ replies'[1] = replies[1] /\ replies'[2] = r
  <2>. SUFFICES ASSUME Len(replies) = 1
                PROVE  Len(replies') = 2 /\ replies'[1] = replies[1] /\ replies'[2] = r
    OBVIOUS
  <2>1. 1 \in 1..Len(replies) /\ Len(replies) + 1 = 2
    OBVIOUS
  <2>. QED  BY <1>3, <2>1
<1>8. r = [no |-> sent, code |-> code, value |-> value]
  BY DEF r
<1>. QED  BY <1>4, <1>6, <1>7, <1>8

LEMMA RepliesShrink ==
  ASSUME FtpTypes, ReadReply
  PROVE  /\ Len(replies) = 1 => replies' = <<>>
         /\ Len(replies) = 2 => Len(replies') = 1 /\ replies'[1] = replies[2]
<1>1. replies \in Seq(ReplyType) /\ replies # <<>> /\ replies' = Tail(replies)
  BY ReplyRead DEF FtpTypes
<1>2. Len(replies') = Len(replies) - 1 /\ \A i \in 1..(Len(replies) - 1) : replies'[i] = replies[i + 1]
  BY <1>1
<1>3. replies' \in Seq(ReplyType)
  BY ReplyRead
<1>4. Len(replies) = 1 => replies' = <<>>
  BY <1>2, <1>3
<1>5. Len(replies) = 2 => Len(replies') = 1 /\ replies'[1] = replies[2]
  BY <1>2
<1>. QED  BY <1>4, <1>5

LEMMA NoReplies == Len(<<>>) = 0
OBVIOUS

LEMMA HungUpControl == ASSUME HungUp PROVE ControlOK'
BY CommandsAre DEF HungUp, ControlOK, Quiet, Offline, NoReply

\* The data connection moves, the client and the replies do not.
LEMMA DataControl ==
  ASSUME FtpTypes, ControlOK, UNCHANGED <<ftpclient, sent, response, replies, session>>,
         data'.at = "listen" => data.at = "listen"
  PROVE  ControlOK'
BY DEF ControlOK, Awaits, Owed, LastReplyOK, Quiet

\* The server ends the transfer.
LEMMA EndControl ==
  ASSUME FtpTypes, ControlOK, session = "transfer", session' = "idle",
         UNCHANGED <<ftpclient, sent, response>>,
         NEW code \in {"2", "4"}, replies' = Reply(code, 0),
         data'.at = "listen" => code = "4"
  PROVE  ControlOK'
<1>1. /\ replies = <<>> => Len(replies') = 1 /\ replies'[1].no = sent /\ replies'[1].code = code
      /\ Len(replies) = 1 => /\ Len(replies') = 2 /\ replies'[1] = replies[1]
                             /\ replies'[2].no = sent /\ replies'[2].code = code
      /\ replies' # <<>>
  <2> DEFINE r == [no |-> sent, code |-> code, value |-> 0]
  <2>1. r.no = sent /\ r.code = code
    OBVIOUS
  <2>2. /\ replies' # <<>>
        /\ replies = <<>> => Len(replies') = 1 /\ replies'[1] = r
        /\ Len(replies) = 1 => Len(replies') = 2 /\ replies'[1] = replies[1] /\ replies'[2] = r
    BY RepliesGrow
  <2>. HIDE DEF r
  <2>. QED  BY <2>1, <2>2
<1>2. CASE ftpclient.waits /\ ftpclient.step \in Commands
  <2>1. /\ ftpclient.step = "xfer" /\ replies # <<>> /\ replies[1].no = sent
        /\ replies[1].code = "1" /\ Len(replies) = 1
    BY <1>2, CommandsAre DEF ControlOK, Awaits, Owed
  <2>. QED  BY <1>1, <1>2, <2>1 DEF ControlOK, Awaits, LastReplyOK
<1>3. CASE ~(ftpclient.waits /\ ftpclient.step \in Commands)
  <2>1. replies = <<>>
    BY <1>3 DEF ControlOK, Owed, Quiet
  <2>2. Owed'
    BY <1>1, <2>1 DEF Owed, LastReplyOK
  <2>3. ~Quiet
    BY DEF Quiet
  <2>. QED  BY <1>3, <2>2, <2>3 DEF ControlOK
<1>. QED  BY <1>2, <1>3

\* The client goes on within the transfer.
LEMMA GotoControl ==
  ASSUME FtpTypes, ControlOK, NEW step \in {"move", "close", "giveup"}, Goto(step),
         ftpclient.step \in {"accept", "move"}, UNCHANGED <<sent, response, replies, session>>,
         data'.at = "listen" => data.at = "listen"
  PROVE  ControlOK'
<1>1. /\ ~ftpclient.waits /\ response.no \in {0, sent} /\ response.code = "1" /\ Owed
  BY CommandsAre DEF ControlOK
<1>2. Owed'
  BY <1>1 DEF Owed, LastReplyOK
<1>3. ftpclient'.step = step /\ ftpclient'.waits = FALSE
  BY GotoIs DEF FtpTypes
<1>. QED  BY <1>1, <1>2, <1>3 DEF ControlOK

\* Nothing is under way on the control connection, and nothing comes to be.
LEMMA QuietControl ==
  ASSUME FtpTypes, ControlOK, Quiet, ~ftpclient.waits,
         UNCHANGED <<sent, response, replies, session>>,
         ftpclient'.waits = FALSE,
         ftpclient'.step \notin {"accept", "move", "close", "giveup"}
  PROVE  ControlOK'
BY DEF ControlOK, Quiet

LEMMA ObeyControl ==
  ASSUME FtpTypes, ControlOK, session \in Commands
  PROVE  /\ ftpclient.waits /\ ftpclient.step = session /\ replies = <<>>
BY CommandsAre DEF ControlOK, Awaits, Owed, Quiet

LEMMA ReadRespControl == ASSUME FtpTypes, ControlOK, ReadResp PROVE ControlOK'
<1>1. ftpclient.waits /\ ftpclient.step \in Commands /\ ReadReply /\ Awaits(ftpclient.step)
  BY CommandsAre DEF ReadResp, ControlOK
<1> DEFINE code == replies[1].code
<1>2. /\ replies # <<>> /\ code \in {"1", "2", "3", "4", "5"}
      /\ response' = [no |-> replies[1].no, code |-> code] /\ Head(replies) = replies[1]
  BY <1>1, ReplyRead DEF ReplyType
<1>3. /\ ftpclient'.waits = FALSE
      /\ ftpclient'.step = IF code = Expects[ftpclient.step] THEN NextStep(ftpclient.step)
                                                            ELSE StepRefused(ftpclient.step, code)
  BY <1>2 DEF ReadResp, FtpTypes, ClientType
<1>4. session' = session /\ sent' = sent /\ data' = data
  BY DEF ReadResp
<1>5. replies[1].no = sent /\ response'.no = sent /\ response'.code = code
  BY <1>1, <1>2, CommandsAre DEF Awaits
<1>6. CASE ftpclient.step = "xfer"
  <2>1. Expects["xfer"] = "1" /\ NextStep("xfer") \in {"accept", "move"} /\ StepRefused("xfer", code) = "giveup"
    BY CommandsAre DEF NextStep, StepRefused
  <2>2. CASE code = "1"
    <3>1. \/ session = "transfer" /\ Len(replies) = 1
          \/ session = "idle" /\ Len(replies) = 2 /\ LastReplyOK(replies[2])
      BY <1>1, <1>2, <1>6, <2>2, CommandsAre DEF Awaits
    <3>2. Owed'
      BY <3>1, <1>1, <1>4, RepliesShrink DEF Owed, LastReplyOK
    <3>. QED  BY <1>3, <1>4, <1>5, <1>6, <2>1, <2>2, <3>2 DEF ControlOK
  <2>3. CASE code # "1"
    <3>1. session = "idle" /\ Len(replies) = 1 /\ code \in {"4", "5"}
      BY <1>1, <1>2, <1>6, <2>3, CommandsAre DEF Awaits
    <3>2. Quiet'
      BY <3>1, <1>1, <1>4, RepliesShrink DEF Quiet
    <3>. QED  BY <1>3, <1>4, <1>5, <1>6, <2>1, <2>3, <3>1, <3>2 DEF ControlOK
  <2>. QED  BY <2>2, <2>3
<1>7. CASE ftpclient.step # "xfer"
  <2>1. session = "idle" /\ Len(replies) = 1
    BY <1>1, <1>2, <1>7 DEF Awaits
  <2>2. Quiet'
    BY <2>1, <1>1, <1>4, RepliesShrink DEF Quiet
  <2>3. /\ NextStep(ftpclient.step) \notin {"accept", "move", "close", "giveup"}
        /\ StepRefused(ftpclient.step, code) \notin {"accept", "move", "close", "giveup"}
    BY <1>1, <1>7, CommandsAre DEF NextStep, StepRefused
  <2>. QED  BY <1>3, <1>4, <1>5, <2>2, <2>3 DEF ControlOK
<1>. QED  BY <1>6, <1>7

\* The steps of the client and the server, but for the faults.
LEMMA ControlStep == ASSUME FtpTypes, ControlOK, FtpNext, ~FtpFault PROVE ControlOK'
<1>1. CASE FtpConnect
  <2>1. ~ftpclient.waits /\ Quiet
    BY <1>1, CommandsAre DEF FtpConnect, ControlOK
  <2>2. ftpclient'.step = "user" /\ ftpclient'.waits = FALSE
    BY <1>1 DEF FtpConnect, Offline
  <2>. QED  BY <1>1, <2>1, <2>2, QuietControl DEF FtpConnect, serverVars
<1>2. CASE FtpQuit
  BY <1>2, HungUpControl DEF FtpQuit
<1>3. CASE Call
  <2>1. ~ftpclient.waits /\ Quiet
    BY <1>3, CommandsAre DEF Call, ControlOK
  <2>2. ftpclient'.step \in {"mtime", "type", "other"} /\ ftpclient'.waits = FALSE
    BY <1>3, <2>1 DEF Call, FtpTypes, ClientType
  <2>. QED  BY <1>3, <2>1, <2>2, QuietControl DEF Call, serverVars
<1>4. CASE SendCmd
  <2>1. ~ftpclient.waits /\ Quiet /\ ftpclient.step \in Commands
    BY <1>4, CommandsAre DEF SendCmd, ControlOK
  <2>2. ftpclient'.step = ftpclient.step /\ ftpclient'.waits = TRUE
    BY <1>4 DEF SendCmd, FtpTypes, ClientType
  <2>. QED  BY <1>4, <2>1, <2>2 DEF SendCmd, ControlOK, Awaits, Quiet
<1>5. CASE Obey
  <2>1. ftpclient.waits /\ ftpclient.step = session /\ replies = <<>> /\ session \in Commands
    BY <1>5, ObeyControl DEF Obey
  <2>2. /\ Expects[session] \in {"1", "2", "3", "4", "5"} /\ Value(session) \in Nat
        /\ session = "xfer" => Expects[session] = "1"
    BY <2>1, CommandsAre DEF Value, FtpTypes
  <2>3. \E code \in {"1", "2", "3", "4", "5"}, value \in Nat :
           replies' = Reply(code, value) /\ (session = "xfer" => code = "1")
    BY <1>5, <2>2 DEF Obey
  <2>4. PICK code \in {"1", "2", "3", "4", "5"}, value \in Nat :
           replies' = Reply(code, value) /\ (session = "xfer" => code = "1")
    BY <2>3
  <2>5. /\ Len(replies') = 1 /\ replies' # <<>>
        /\ replies'[1] = [no |-> sent, code |-> code, value |-> value]
    BY <2>1, <2>4, RepliesGrow
  <2>6. /\ UNCHANGED <<ftpclient, sent, response>>
        /\ session' = IF session = "xfer" THEN "transfer" ELSE "idle"
    BY <1>5 DEF Obey
  <2>. QED  BY <2>1, <2>4, <2>5, <2>6 DEF ControlOK, Awaits
<1>6. CASE ReadResp
  BY <1>6, ReadRespControl
<1>7. CASE Dial
  BY <1>7, DataControl DEF Dial, FtpTypes, DataType
<1>8. CASE AcceptData
  BY <1>8, GotoControl DEF AcceptData, serverVars
<1>9. CASE AcceptReply
  <2>1. /\ ~ftpclient.waits /\ Owed /\ replies # <<>> /\ data.at = "listen" /\ ReadReply
    BY <1>9, CommandsAre, ReplyRead DEF AcceptReply, ControlOK
  <2>2. session = "idle" /\ Len(replies) = 1 /\ replies[1].no = sent /\ replies[1].code = "4"
    BY <2>1 DEF Owed, LastReplyOK
  <2>3. Quiet' /\ response'.no = sent' /\ response'.code = "4"
    BY <1>9, <2>1, <2>2, ReplyRead, RepliesShrink DEF AcceptReply, Quiet
  <2>4. ftpclient'.step = "giveup" /\ ftpclient'.waits = FALSE
    BY <1>9, GotoIs DEF AcceptReply, FtpTypes
  <2>. QED  BY <2>3, <2>4 DEF ControlOK
<1>10. CASE ServerSends
  <2>1. CASE UNCHANGED <<replies, session>> /\ data' = Moved
    BY <1>10, <2>1, BlockMoved, DataControl DEF ServerSends
  <2>2. CASE data' = [data EXCEPT !.at = "ended"] /\ replies' = Reply("2", 0) /\ session' = "idle"
    <3>1. data'.at = "ended"
      BY <2>2 DEF FtpTypes, DataType
    <3>. QED  BY <1>10, <2>2, <3>1, EndControl DEF ServerSends
  <2>. QED  BY <1>10, <2>1, <2>2 DEF ServerSends
<1>11. CASE ClientReads
  <2>1. CASE UNCHANGED ftpclient
    BY <1>11, <2>1, BlockMoved, DataControl, GotoIs DEF ClientReads, FtpTypes
  <2>2. CASE Goto("close") /\ UNCHANGED data
    BY <1>11, <2>2, GotoControl DEF ClientReads
  <2>. QED  BY <1>11, <2>1, <2>2 DEF ClientReads
<1>12. CASE ClientWrites
  <2>1. CASE data' = Moved /\ UNCHANGED <<ftpclient, replies, session, sent, response>>
    BY <2>1, BlockMoved, DataControl
  <2>2. CASE (Goto("close") \/ Goto("giveup")) /\ UNCHANGED <<sent, response, serverVars>>
    BY <1>12, <2>2, GotoControl DEF ClientWrites, serverVars
  <2>3. CASE HungUp
    BY <2>3, HungUpControl
  <2>. QED  BY <1>12, <2>1, <2>2, <2>3 DEF ClientWrites
<1>13. CASE ServerReads
  <2>1. CASE data.blocks # <<>> /\ data' = Took /\ UNCHANGED <<replies, session>>
    BY <1>13, <2>1, BlockMoved, DataControl DEF ServerReads
  <2>2. CASE data.at = "ended" /\ replies' = Reply("2", 0) /\ session' = "idle" /\ UNCHANGED data
    BY <1>13, <2>2, EndControl DEF ServerReads
  <2>. QED  BY <1>13, <2>1, <2>2 DEF ServerReads
<1>14. CASE ServerAborts
  BY <1>14, EndControl DEF ServerAborts
<1>15. CASE CloseData
  <2>1. ~ftpclient.waits /\ ftpclient.step \in {"close", "giveup"}
    BY <1>15 DEF CloseData
  <2>2. ClosedData.at # "listen"
    BY DEF ClosedData, NoData, FtpTypes, DataType
  <2>3. CASE response.code \in {"4", "5"}
    <3>1. ftpclient.step = "giveup" /\ Quiet
      BY <2>1, <2>3, CommandsAre DEF ControlOK
    <3>2. ftpclient'.step = "ready" /\ ftpclient'.waits = FALSE
      BY <1>15, <2>3, GotoIs DEF CloseData, FtpTypes
    <3>. QED  BY <1>15, <2>1, <3>1, <3>2, QuietControl DEF CloseData
  <2>4. CASE response.code \notin {"4", "5"}
    <3>1. Owed
      BY <2>1, <2>4, CommandsAre DEF ControlOK
    <3>2. Owed'
      BY <1>15, <2>2, <3>1 DEF CloseData, Owed, LastReplyOK
    <3>3. ftpclient'.step = ftpclient.step /\ ftpclient'.waits = TRUE
      BY <1>15, <2>4 DEF CloseData, FtpTypes, ClientType
    <3>. QED  BY <2>1, <3>2, <3>3 DEF ControlOK
  <2>. QED  BY <2>3, <2>4
<1>16. CASE LastReply
  <2>1. ftpclient.waits /\ Owed /\ ReadReply /\ replies # <<>>
    BY <1>16, CommandsAre, ReplyRead DEF LastReply, ControlOK
  <2>2. session = "idle" /\ Len(replies) = 1 /\ replies[1].no = sent
    BY <2>1 DEF Owed, LastReplyOK
  <2>3. Quiet' /\ response'.no = sent'
    BY <1>16, <2>1, <2>2, ReplyRead, RepliesShrink DEF LastReply, Quiet
  <2>4. ftpclient'.step \in {"ready", "mtime2", "checklocal"} /\ ftpclient'.waits = FALSE
    BY <1>16, GotoIs DEF LastReply, AfterTransfer, FtpTypes
  <2>. QED  BY <2>3, <2>4 DEF ControlOK
<1>17. CASE CheckGet \/ CheckPut
  <2>1. ftpclient.step \in {"checktime", "checklocal", "checksize"}
    BY <1>17 DEF CheckGet, CheckPut
  <2>2. ~ftpclient.waits /\ Quiet
    BY <2>1, CommandsAre DEF ControlOK
  <2>3. \E step \in {"ready", "rename", "remove", "removefinal"} : Goto(step)
    BY <1>17 DEF CheckGet, CheckPut, ReturnTrue
  <2>4. ftpclient'.step \in {"ready", "rename", "remove", "removefinal"} /\ ftpclient'.waits = FALSE
    BY <2>3, GotoIs DEF FtpTypes
  <2>. QED  BY <1>17, <2>2, <2>4, QuietControl DEF CheckGet, CheckPut, serverVars
<1>18. CASE Rewrite
  BY <1>18, DataControl DEF Rewrite, serverVars
<1>. QED  BY <1>1, <1>2, <1>3, <1>4, <1>5, <1>6, <1>7, <1>8, <1>9, <1>10, <1>11, <1>12, <1>13,
             <1>14, <1>15, <1>16, <1>17, <1>18 DEF FtpNext

LEMMA ControlFault == ASSUME FtpTypes, ControlOK, FtpFault PROVE ControlOK'
<1>1. CASE Refuse
  <2>1. ftpclient.waits /\ ftpclient.step = session /\ replies = <<>> /\ session \in Commands
    BY <1>1, ObeyControl DEF Refuse
  <2>2. PICK code \in {"4", "5"} : replies' = Reply(code, 0)
    BY <1>1 DEF Refuse
  <2>3. Len(replies') = 1 /\ replies'[1] = [no |-> sent, code |-> code, value |-> 0]
    BY <2>1, <2>2, RepliesGrow
  <2>4. UNCHANGED <<ftpclient, sent, response>> /\ session' = "idle"
    BY <1>1 DEF Refuse
  <2>. QED  BY <2>1, <2>3, <2>4 DEF ControlOK, Awaits
<1>2. CASE BreakData
  <2>1. data'.at # "listen"
    BY <1>2 DEF BreakData, FtpTypes, DataType
  <2>. QED  BY <1>2, <2>1, DataControl DEF BreakData
<1>3. CASE NoDial
  BY <1>3, EndControl DEF NoDial
<1>4. CASE AcceptTimeout
  <2>1. ftpclient.step = "accept" /\ replies = <<>> /\ UNCHANGED <<sent, replies, session>>
    BY <1>4 DEF AcceptTimeout
  <2>2. ~ftpclient.waits /\ Owed
    BY <2>1, CommandsAre DEF ControlOK
  <2>3. Owed'
    BY <2>1, <2>2, NoReplies DEF Owed
  <2>4. /\ ftpclient'.step = "giveup" /\ ftpclient'.waits = FALSE
        /\ response'.no = 0 /\ response'.code = "t"
    BY <1>4, GotoIs DEF AcceptTimeout, FtpTypes
  <2>. QED  BY <2>3, <2>4 DEF ControlOK
<1>5. CASE DiskFull
  <2>1. CASE ftpclient.step = "move" /\ data' = Took /\ UNCHANGED <<replies, session>>
    <3>1. data'.at = data.at
      BY <1>5, <2>1, BlockMoved DEF DiskFull
    <3>2. CASE UNCHANGED ftpclient
      BY <1>5, <2>1, <3>1, <3>2, DataControl DEF DiskFull
    <3>3. CASE Goto("giveup")
      BY <1>5, <2>1, <3>1, <3>3, GotoControl DEF DiskFull
    <3>. QED  BY <1>5, <2>1, <3>2, <3>3, GotoIs DEF DiskFull, FtpTypes
  <2>2. CASE /\ session = "transfer" /\ data' = [data EXCEPT !.at = "broken", !.blocks = <<>>]
             /\ replies' = Reply("4", 0) /\ session' = "idle" /\ UNCHANGED ftpclient
    BY <1>5, <2>2, EndControl DEF DiskFull
  <2>. QED  BY <1>5, <2>1, <2>2 DEF DiskFull
<1>6. CASE Hangup
  BY <1>6, HungUpControl DEF Hangup
<1>. QED  BY <1>1, <1>2, <1>3, <1>4, <1>5, <1>6 DEF FtpFault

LEMMA ControlIsEnough == ASSUME FtpTypes, ControlOK PROVE RepliesInTurn
BY CommandsAre, NoReplies DEF ControlOK, RepliesInTurn, Awaits, Owed, Quiet

-----------------------------------------------------------------------------
(* The files.                                                              *)

LEMMA NoBlocks == ASSUME NEW v PROVE AllOf(<<>>, v) /\ Len(<<>>) = 0
BY DEF AllOf

LEMMA AllSame == ASSUME NEW s \in Seq(Nat), NEW v, AllOf(s, v) PROVE Same(s)
BY DEF AllOf, Same

LEMMA BlockAdded ==
  ASSUME NEW s \in Seq(Nat), NEW v \in Nat
  PROVE  Len(Append(s, v)) = Len(s) + 1 /\ (AllOf(s, v) => AllOf(Append(s, v), v))
BY DEF AllOf

LEMMA BlockTaken ==
  ASSUME NEW s \in Seq(Nat), s # <<>>
  PROVE  /\ Len(Tail(s)) = Len(s) - 1 /\ Head(s) \in Nat /\ Tail(s) \in Seq(Nat)
         /\ \A v : AllOf(s, v) => AllOf(Tail(s), v) /\ Head(s) = v
<1>1. Len(Tail(s)) = Len(s) - 1 /\ Head(s) \in Nat /\ Tail(s) \in Seq(Nat)
  OBVIOUS
<1>2. Len(s) \in Nat /\ Len(s) > 0 /\ Head(s) = s[1]
  OBVIOUS
<1>3. \A i \in 1..Len(Tail(s)) : Tail(s)[i] = s[i + 1] /\ i + 1 \in 1..Len(s)
  BY <1>1, <1>2
<1>4. 1 \in 1..Len(s)
  BY <1>2
<1>. QED  BY <1>1, <1>2, <1>3, <1>4 DEF AllOf

\* Where no file is on its way.
LEMMA FreeFiles ==
  ASSUME ftpclient'.step \in {"offline", "ready", "user", "pass", "giveup", "remove", "removefinal", "other"}
  PROVE  FilesOK'
BY DEF FilesOK, CallOK, TimeOK, BeforeOK, Began, TransferOK, GotOK, Renamed, PutOK

\* During a transfer.
LEMMA TransferFiles == ASSUME Began', TimeOK', TransferOK' PROVE FilesOK'
BY DEF FilesOK, CallOK, BeforeOK, Began, GotOK, Renamed, PutOK, GotReply

\* A command is sent, the data connection and the files stay.
LEMMA SentFiles ==
  ASSUME FilesOK, replies = <<>>, replies' = <<>>,
         ftpclient'.step = ftpclient.step, ftpclient'.call = ftpclient.call,
         ftpclient'.mtime = ftpclient.mtime, ftpclient'.value = ftpclient.value,
         UNCHANGED <<data, original, tmpcopy, copy, cut, unseen>>
  PROVE  FilesOK'
BY DEF FilesOK, CallOK, TimeOK, BeforeOK, EmptyData, Began, TransferOK, GotOK, Renamed, PutOK,
       GotReply, Current

\* The server refuses a command.
LEMMA RefusedFiles ==
  ASSUME FilesOK, replies = <<>>, replies' # <<>>, replies'[1].code \in {"4", "5"},
         UNCHANGED <<ftpclient, data, original, tmpcopy, copy, cut, unseen>>
  PROVE  FilesOK'
BY DEF FilesOK, CallOK, TimeOK, BeforeOK, EmptyData, Began, TransferOK, GotOK, Renamed, PutOK,
       GotReply, Current

\* The state of a transfer at the server, and what the client knows of it.
LEMMA InTransfer ==
  ASSUME FtpTypes, ControlOK, session = "transfer"
  PROVE  /\ Began \/ ftpclient.step = "giveup"
         /\ ftpclient.waits /\ ftpclient.step = "xfer" => Len(replies) = 1 /\ replies # <<>>
BY CommandsAre DEF ControlOK, Awaits, Owed, Quiet, Began, GotReply

\* A step of the server in it.
LEMMA ServerInTransfer ==
  ASSUME FtpTypes, ControlOK, FilesOK, session = "transfer",
         UNCHANGED <<ftpclient, sent, original, unseen>>,
         \/ UNCHANGED replies
         \/ \E code \in {"2", "4"} : replies' = Reply(code, 0),
         Began => TransferOK'
  PROVE  FilesOK'
<1>1. CASE ftpclient.step = "giveup"
  BY <1>1, FreeFiles
<1>2. CASE ftpclient.step # "giveup"
  <2>1. Began
    BY <1>2, InTransfer
  <2>2. ftpclient.waits /\ ftpclient.step = "xfer" =>
          replies # <<>> /\ replies' # <<>> /\ replies'[1] = replies[1]
    <3>1. CASE UNCHANGED replies
      BY <3>1, InTransfer
    <3>2. CASE \E code \in {"2", "4"} : replies' = Reply(code, 0)
      BY <3>2, InTransfer, RepliesGrow
    <3>. QED  BY <3>1, <3>2
  <2>3. Began'
    BY <2>1, <2>2 DEF Began, GotReply
  <2>4. TimeOK'
    BY <2>1 DEF FilesOK, TimeOK, Began
  <2>. QED  BY <2>1, <2>3, <2>4, TransferFiles
<1>. QED  BY <1>1, <1>2

\* A step of the client in it.
LEMMA ClientInTransfer ==
  ASSUME FtpTypes, FilesOK, ftpclient.step \in {"accept", "move", "close"},
         ftpclient'.step \in {"accept", "move", "close"},
         ftpclient'.call = ftpclient.call, ftpclient'.mtime = ftpclient.mtime,
         UNCHANGED <<original, unseen>>,
         TransferOK'
  PROVE  FilesOK'
<1>1. Began'
  BY DEF Began
<1>2. TimeOK'
  BY DEF FilesOK, TimeOK
<1>. QED  BY <1>1, <1>2, TransferFiles

LEMMA ObeyFiles == ASSUME FtpTypes, ControlOK, FilesOK, Obey PROVE FilesOK'
<1>1. ftpclient.waits /\ ftpclient.step = session /\ replies = <<>> /\ session \in Commands
  BY ObeyControl DEF Obey
<1>2. UNCHANGED <<ftpclient, original, cut, unseen>>
  BY DEF Obey
<1>3. /\ Expects[session] \in {"1", "2", "3", "4", "5"} /\ Value(session) \in Nat
      /\ Expects["xfer"] = "1"
      /\ session \in {"mtime", "port", "mtime2", "renameto", "size"} => Expects[session] = "2"
  BY <1>1, CommandsAre DEF Value, FtpTypes
<1>4. CASE session \in {"user", "pass", "remove", "removefinal", "other"}
  BY <1>1, <1>2, <1>4, FreeFiles
<1>5. CASE session \notin {"user", "pass", "remove", "removefinal", "other"}
  <2>1. replies' = Reply(Expects[session], Value(session))
    BY <1>5 DEF Obey
  <2>2. /\ replies' # <<>> /\ replies'[1].code = Expects[session]
        /\ replies'[1].value = Value(session)
    <3>1. PICK code \in {"1", "2", "3", "4", "5"}, value \in Nat :
             code = Expects[session] /\ value = Value(session)
      BY <1>3
    <3>2. replies' # <<>> /\ replies'[1] = [no |-> sent, code |-> code, value |-> value]
      BY <1>1, <2>1, <3>1, RepliesGrow
    <3>. QED  BY <3>1, <3>2
  <2>3. session # "xfer" => data' = IF session = "port" THEN [NoData EXCEPT !.at = "listen"] ELSE data
    BY DEF Obey, OpenPort
  <2>4. CASE session = "xfer"
    <3>1. EmptyData /\ (ftpclient.call = "get" => tmpcopy = <<>>)
      BY <1>1, <2>4 DEF FilesOK, BeforeOK, Began, GotReply
    <3>2. data'.blocks = <<>> /\ data'.moved = 0 /\ data'.at \in {"listen", "open"}
      BY <2>4, <3>1 DEF Obey, OpenPort, EmptyData, FtpTypes, DataType
    <3>3. ftpclient.call \in {"get", "put"} => tmpcopy' = <<>>
      BY <2>4, <3>1 DEF Obey
    <3>4. Began'
      BY <1>1, <1>2, <1>3, <2>2, <2>4 DEF Began, GotReply
    <3>5. TimeOK'
      BY <1>1, <1>2, <2>4 DEF FilesOK, TimeOK
    <3>6. TransferOK'
      BY <1>1, <1>2, <2>4, <3>2, <3>3, NoBlocks DEF TransferOK
    <3>. QED  BY <3>4, <3>5, <3>6, TransferFiles
  <2>5. CASE session = "port"
    <3>1. EmptyData'
      BY <2>3, <2>5 DEF EmptyData, NoData
    <3>2. tmpcopy' = tmpcopy /\ ftpclient'.step = "port"
      BY <1>1, <1>2, <2>5 DEF Obey
    <3>. QED  BY <1>1, <1>2, <2>5, <3>1, <3>2
              DEF FilesOK, CallOK, TimeOK, BeforeOK, Began, TransferOK, GotOK, Renamed, PutOK
  <2>6. CASE session = "mtime"
    <3>1. replies'[1].value = original.mtime
      BY <2>2, <2>6 DEF Value
    <3>. QED  BY <1>1, <1>2, <2>6, <3>1
              DEF FilesOK, CallOK, TimeOK, BeforeOK, Began, TransferOK, GotOK, Renamed, PutOK,
                  FtpTypes
  <2>7. CASE session = "type"
    <3>1. tmpcopy' = tmpcopy
      BY <2>7 DEF Obey
    <3>. QED  BY <1>1, <1>2, <2>7, <3>1
              DEF FilesOK, CallOK, TimeOK, BeforeOK, Began, TransferOK, GotOK, Renamed, PutOK
  <2>8. CASE session = "mtime2"
    <3>1. tmpcopy' = tmpcopy /\ tmpcopy \in Seq(Nat) /\ replies'[1].value = original.mtime
      BY <2>2, <2>8 DEF Obey, FtpTypes, Value
    <3>2. /\ ~cut => Len(tmpcopy) = Blocks
          /\ Current => AllOf(tmpcopy, original.version)
          /\ ftpclient.call = "get" /\ original.mtime >= ftpclient.mtime
      BY <1>1, <2>8 DEF FilesOK, GotOK, CallOK, TimeOK
    <3>3. ~unseen /\ replies'[1].value = ftpclient.mtime => Same(tmpcopy)
      BY <3>1, <3>2, AllSame DEF Current
    <3>. QED  BY <1>1, <1>2, <2>8, <3>1, <3>2, <3>3
              DEF FilesOK, CallOK, TimeOK, BeforeOK, Began, TransferOK, GotOK, Renamed, PutOK, Current
  <2>9. CASE session = "rename"
    <3>1. tmpcopy' = tmpcopy
      BY <2>9 DEF Obey
    <3>2. ftpclient.call = "put" /\ (~unseen => Same(tmpcopy))
      BY <1>1, <2>9 DEF FilesOK, CallOK, PutOK, Renamed
    <3>. QED  BY <1>1, <1>2, <2>9, <3>1, <3>2
              DEF FilesOK, CallOK, TimeOK, BeforeOK, Began, TransferOK, GotOK, Renamed, PutOK
  <2>10. CASE session = "renameto"
    <3>1. copy' = tmpcopy
      BY <2>10 DEF Obey
    <3>2. ftpclient.call = "put" /\ (~unseen => Same(tmpcopy))
      BY <1>1, <2>10 DEF FilesOK, CallOK, PutOK, Renamed, GotReply
    <3>3. Renamed'
      BY <1>1, <1>2, <1>3, <2>2, <2>10 DEF Renamed, GotReply
    <3>. QED  BY <1>1, <1>2, <2>10, <3>1, <3>2, <3>3
              DEF FilesOK, CallOK, TimeOK, BeforeOK, Began, TransferOK, GotOK, PutOK
  <2>11. CASE session \in {"typesize", "size"}
    <3>1. copy' = copy
      BY <2>11 DEF Obey
    <3>2. ftpclient.call = "put" /\ (~unseen => Same(copy))
      BY <1>1, <2>11 DEF FilesOK, CallOK, PutOK, Renamed
    <3>3. session = "size" => replies'[1].value = Len(copy)
      BY <2>2 DEF Value
    <3>. QED  BY <1>1, <1>2, <2>11, <3>1, <3>2, <3>3
              DEF FilesOK, CallOK, TimeOK, BeforeOK, Began, TransferOK, GotOK, Renamed, PutOK
  <2>. QED  BY <1>1, <1>5, <2>4, <2>5, <2>6, <2>7, <2>8, <2>9, <2>10, <2>11, CommandsAre
<1>. QED  BY <1>4, <1>5

LEMMA ReadRespFiles == ASSUME FtpTypes, ControlOK, FilesOK, ReadResp PROVE FilesOK'
<1> DEFINE code == replies[1].code
<1> DEFINE ok == code = Expects[ftpclient.step]
<1>1. /\ ftpclient.waits /\ ftpclient.step \in Commands /\ replies # <<>> /\ replies[1] \in ReplyType
      /\ Head(replies) = replies[1] /\ ReadReply
  BY ReplyRead DEF ReadResp
<1>2. /\ ftpclient'.waits = FALSE /\ ftpclient'.call = ftpclient.call
      /\ ftpclient'.value = replies[1].value
      /\ ftpclient'.mtime = IF ftpclient.step = "mtime" THEN replies[1].value ELSE ftpclient.mtime
      /\ ftpclient'.step = IF ok THEN NextStep(ftpclient.step) ELSE StepRefused(ftpclient.step, code)
      /\ tmpcopy' = IF ftpclient.step = "mtime" /\ ok THEN <<>> ELSE tmpcopy
  BY <1>1 DEF ReadResp, FtpTypes, ClientType
<1>3. UNCHANGED <<data, original, copy, cut, unseen>>
  BY DEF ReadResp
<1>4. CASE ~ok
  <2>1. ftpclient'.step \in {"ready", "offline", "giveup"}
    BY <1>2, <1>4 DEF StepRefused
  <2>. QED  BY <2>1, FreeFiles
<1>5. CASE ok
  <2>1. /\ GotReply(Expects[ftpclient.step])
        /\ ftpclient.step \in {"mtime", "port", "mtime2", "renameto", "size"} => GotReply("2")
        /\ ftpclient.step = "xfer" => GotReply("1")
    BY <1>1, <1>5, CommandsAre DEF GotReply
  <2>2. ftpclient'.step = NextStep(ftpclient.step)
    BY <1>2, <1>5
  <2>. HIDE DEF ok, code
  <2>3. CASE ftpclient.step = "mtime"
    <3>1. ftpclient'.step = "type" /\ tmpcopy' = <<>> /\ ftpclient'.mtime <= original.mtime
      BY <1>2, <1>5, <2>1, <2>2, <2>3 DEF NextStep, FilesOK, TimeOK
    <3>2. ftpclient'.mtime \in Nat /\ original'.mtime \in Nat
      BY <1>1, <1>2, <1>3, <2>3 DEF FtpTypes, ReplyType
    <3>. QED  BY <1>2, <1>3, <3>1, <3>2
              DEF FilesOK, CallOK, TimeOK, BeforeOK, Began, TransferOK, GotOK, Renamed, PutOK, GotReply
  <2>4. CASE ftpclient.step = "type"
    <3>1. ftpclient'.step = "port" /\ tmpcopy' = tmpcopy
      BY <1>2, <2>2, <2>4 DEF NextStep
    <3>. QED  BY <1>2, <1>3, <2>4, <3>1
              DEF FilesOK, CallOK, TimeOK, BeforeOK, Began, TransferOK, GotOK, Renamed, PutOK, GotReply
  <2>5. CASE ftpclient.step = "port"
    <3>1. ftpclient'.step = "xfer" /\ tmpcopy' = tmpcopy
      BY <1>2, <2>2, <2>5 DEF NextStep
    <3>2. EmptyData'
      BY <1>3, <2>1, <2>5 DEF FilesOK, BeforeOK, EmptyData
    <3>. QED  BY <1>2, <1>3, <2>5, <3>1, <3>2
              DEF FilesOK, CallOK, TimeOK, BeforeOK, Began, TransferOK, GotOK, Renamed, PutOK, GotReply
  <2>6. CASE ftpclient.step = "xfer"
    <3>1. ftpclient'.step \in {"accept", "move"} /\ tmpcopy' = tmpcopy /\ ftpclient'.mtime = ftpclient.mtime
      BY <1>2, <2>2, <2>6 DEF NextStep
    <3>2. Began /\ Began'
      BY <2>1, <2>6, <3>1 DEF Began
    <3>3. TimeOK'
      BY <1>2, <1>3, <2>6, <3>1 DEF FilesOK, TimeOK
    <3>4. TransferOK'
      BY <1>2, <1>3, <3>1, <3>2 DEF FilesOK, TransferOK, Current
    <3>. QED  BY <3>2, <3>3, <3>4, TransferFiles
  <2>7. CASE ftpclient.step = "mtime2"
    <3>1. /\ ftpclient'.step = "checktime" /\ tmpcopy' = tmpcopy /\ ftpclient'.mtime = ftpclient.mtime
          /\ ftpclient'.call = "get"
      BY <1>2, <2>2, <2>7 DEF NextStep, FilesOK, CallOK
    <3>2. (~cut => Len(tmpcopy) = Blocks) /\ (~unseen /\ ftpclient'.value = ftpclient.mtime => Same(tmpcopy))
      BY <1>2, <2>1, <2>7 DEF FilesOK, GotOK
    <3>. QED  BY <1>3, <3>1, <3>2
              DEF FilesOK, CallOK, TimeOK, BeforeOK, Began, TransferOK, GotOK, Renamed, PutOK
  <2>8. CASE ftpclient.step = "rename"
    <3>1. ftpclient'.step = "renameto" /\ tmpcopy' = tmpcopy /\ ftpclient'.call = "put"
      BY <1>2, <2>2, <2>8 DEF NextStep, FilesOK, CallOK
    <3>2. ~unseen => Same(tmpcopy)
      BY <2>8 DEF FilesOK, PutOK, Renamed
    <3>. QED  BY <1>2, <1>3, <3>1, <3>2
              DEF FilesOK, CallOK, TimeOK, BeforeOK, Began, TransferOK, GotOK, Renamed, PutOK, GotReply
  <2>9. CASE ftpclient.step \in {"renameto", "typesize", "size"}
    <3>1. ftpclient'.step \in {"typesize", "size", "checksize"} /\ ftpclient'.call = "put"
      BY <1>2, <2>2, <2>9 DEF NextStep, FilesOK, CallOK
    <3>2. ~unseen => Same(copy)
      BY <2>1, <2>9 DEF FilesOK, PutOK, Renamed
    <3>3. ftpclient'.step = "checksize" => ftpclient'.value = Len(copy)
      BY <1>2, <2>1, <2>2, <2>9 DEF NextStep, FilesOK, PutOK
    <3>. QED  BY <1>2, <1>3, <3>1, <3>2, <3>3
              DEF FilesOK, CallOK, TimeOK, BeforeOK, Began, TransferOK, GotOK, Renamed, PutOK, GotReply
  <2>10. CASE ftpclient.step \in {"user", "pass", "remove", "removefinal", "other"}
    <3>1. ftpclient'.step \in {"pass", "ready"}
      BY <2>2, <2>10 DEF NextStep
    <3>. QED  BY <3>1, FreeFiles
  <2>. QED  BY <1>1, <2>3, <2>4, <2>5, <2>6, <2>7, <2>8, <2>9, <2>10, CommandsAre
<1>. QED  BY <1>4, <1>5

\* Blocks leave the sender, and reach the receiver.
LEMMA ServerSendsFiles == ASSUME FtpTypes, ControlOK, FilesOK, ServerSends PROVE FilesOK'
<1>1. /\ session = "transfer" /\ ftpclient.call # "put" /\ data.at = "open"
      /\ UNCHANGED <<ftpclient, sent, original, tmpcopy, copy, cut, unseen>>
  BY DEF ServerSends, Sends, fileVars
<1>2. /\ data.blocks \in Seq(Nat) /\ original.version \in Nat /\ tmpcopy \in Seq(Nat)
      /\ data.moved \in Nat /\ Len(data.blocks) \in Nat /\ Len(tmpcopy) \in Nat
  BY DEF FtpTypes, DataType
<1>3. Began => ftpclient.step # "close" \/ ftpclient.call # "get"
  BY <1>1 DEF FilesOK, TransferOK
<1>4. CASE data' = Moved /\ UNCHANGED replies
  <2>1. /\ data'.blocks = Append(data.blocks, original.version) /\ data'.moved = data.moved + 1
        /\ data'.at = "open"
    BY <1>1, <1>4, BlockMoved
  <2>2. /\ Len(data'.blocks) = Len(data.blocks) + 1
        /\ AllOf(data.blocks, original.version) => AllOf(data'.blocks, original.version)
    BY <1>2, <2>1, BlockAdded
  <2>3. Began => TransferOK'
    BY <1>1, <1>2, <1>3, <2>1, <2>2 DEF FilesOK, TransferOK, Current
  <2>. QED  BY <1>1, <1>4, <2>3, ServerInTransfer
<1>5. CASE data.moved = Blocks /\ data' = [data EXCEPT !.at = "ended"] /\ replies' = Reply("2", 0)
  <2>1. data'.blocks = data.blocks /\ data'.moved = data.moved /\ data'.at = "ended"
    BY <1>5 DEF FtpTypes, DataType
  <2>2. Began => TransferOK'
    BY <1>1, <1>3, <1>5, <2>1 DEF FilesOK, TransferOK, Current
  <2>. QED  BY <1>1, <1>5, <2>2, ServerInTransfer
<1>. QED  BY <1>4, <1>5 DEF ServerSends

LEMMA ClientReadsFiles == ASSUME FtpTypes, FilesOK, ClientReads PROVE FilesOK'
<1>1. /\ ftpclient.step = "move" /\ ftpclient.call # "put"
      /\ UNCHANGED <<original, copy, cut, unseen>>
  BY DEF ClientReads
<1>2. /\ data.blocks \in Seq(Nat) /\ original.version \in Nat /\ tmpcopy \in Seq(Nat)
      /\ data.moved \in Nat /\ Len(data.blocks) \in Nat /\ Len(tmpcopy) \in Nat
  BY DEF FtpTypes, DataType
<1>3. Began
  BY <1>1 DEF Began
<1>4. CASE data.blocks # <<>> /\ data' = Took /\ UNCHANGED ftpclient
  <2>1. data'.blocks = Tail(data.blocks) /\ data'.moved = data.moved /\ data'.at = data.at
    BY <1>4, BlockMoved
  <2>2. ftpclient.call = "get" => tmpcopy' = Append(tmpcopy, Head(data.blocks))
    BY <1>4 DEF ClientReads, Goto, FtpTypes, ClientType
  <2>3. /\ Len(data'.blocks) = Len(data.blocks) - 1 /\ Head(data.blocks) \in Nat
        /\ AllOf(data.blocks, original.version) =>
             AllOf(data'.blocks, original.version) /\ Head(data.blocks) = original.version
    BY <1>2, <1>4, <2>1, BlockTaken
  <2>4. ftpclient.call = "get" =>
          /\ Len(tmpcopy') = Len(tmpcopy) + 1
          /\ AllOf(data.blocks, original.version) /\ AllOf(tmpcopy, original.version) =>
               AllOf(tmpcopy', original.version)
    BY <1>2, <2>2, <2>3, BlockAdded
  <2>5. ASSUME ftpclient.call = "get", ~cut
        PROVE  /\ Len(tmpcopy') + Len(data'.blocks) = data'.moved
               /\ data'.at = "ended" => data'.moved = Blocks
               /\ data'.at # "broken"
    <3> DEFINE a == Len(tmpcopy)
    <3> DEFINE b == Len(data.blocks)
    <3> DEFINE m == data.moved
    <3>1. /\ a + b = m /\ data.at # "broken"
          /\ data.at = "ended" => data.moved = Blocks
      BY <1>3, <2>5 DEF FilesOK, TransferOK
    <3>2. a \in Nat /\ b \in Nat /\ m \in Nat
      BY <1>2
    <3>3. Len(tmpcopy') = a + 1 /\ Len(data'.blocks) = b - 1 /\ data'.moved = m /\ data'.at = data.at
      BY <2>1, <2>3, <2>4, <2>5
    <3>4. (a + 1) + (b - 1) = m
      <4>. HIDE DEF a, b, m
      <4>. QED  BY <3>1, <3>2
    <3>. HIDE DEF a, b
    <3>. QED  BY <3>1, <3>3, <3>4
  <2>6. ASSUME ftpclient.call = "get", Current
        PROVE  AllOf(data'.blocks, original.version) /\ AllOf(tmpcopy', original.version)
    BY <1>3, <2>3, <2>4, <2>6 DEF FilesOK, TransferOK
  <2>7. TransferOK'
    BY <1>1, <1>4, <2>5, <2>6 DEF TransferOK, Current
  <2>. QED  BY <1>1, <1>4, <2>7, ClientInTransfer
<1>5. CASE data.blocks = <<>> /\ data.at \in {"ended", "broken"} /\ Goto("close") /\ UNCHANGED <<data, tmpcopy>>
  <2>1. /\ ftpclient'.step = "close" /\ ftpclient'.call = ftpclient.call
        /\ ftpclient'.mtime = ftpclient.mtime
    BY <1>5, GotoIs DEF FtpTypes
  <2>2. TransferOK'
    BY <1>1, <1>3, <1>5, <2>1 DEF FilesOK, TransferOK, Current
  <2>. QED  BY <1>1, <2>1, <2>2, ClientInTransfer
<1>. QED  BY <1>4, <1>5 DEF ClientReads

LEMMA ClientWritesFiles == ASSUME FtpTypes, FilesOK, ClientWrites PROVE FilesOK'
<1>1. /\ ftpclient.step = "move" /\ ftpclient.call = "put"
      /\ UNCHANGED <<original, tmpcopy, copy, cut, unseen>>
  BY DEF ClientWrites, fileVars
<1>2. data.blocks \in Seq(Nat) /\ original.version \in Nat
  BY DEF FtpTypes, DataType
<1>3. Began
  BY <1>1 DEF Began
<1>4. CASE data' = Moved /\ UNCHANGED ftpclient
  <2>1. data'.blocks = Append(data.blocks, original.version)
    BY <1>4, BlockMoved
  <2>2. AllOf(data.blocks, original.version) => AllOf(data'.blocks, original.version)
    BY <1>2, <2>1, BlockAdded
  <2>3. TransferOK'
    BY <1>1, <1>3, <1>4, <2>2 DEF FilesOK, TransferOK, Current
  <2>. QED  BY <1>1, <1>4, <2>3, ClientInTransfer
<1>5. CASE Goto("close") /\ UNCHANGED serverVars
  <2>1. /\ ftpclient'.step = "close" /\ ftpclient'.call = ftpclient.call
        /\ ftpclient'.mtime = ftpclient.mtime
    BY <1>5, GotoIs DEF FtpTypes
  <2>2. TransferOK'
    BY <1>1, <1>3, <1>5, <2>1 DEF FilesOK, TransferOK, Current, serverVars
  <2>. QED  BY <1>1, <2>1, <2>2, ClientInTransfer
<1>6. CASE Goto("giveup") \/ HungUp
  <2>1. Goto("giveup") => ftpclient'.step = "giveup"
    BY GotoIs DEF FtpTypes
  <2>2. HungUp => ftpclient'.step = "offline"
    BY DEF HungUp, Offline
  <2>. QED  BY <1>6, <2>1, <2>2, FreeFiles
<1>. QED  BY <1>4, <1>5, <1>6 DEF ClientWrites

LEMMA ServerReadsFiles == ASSUME FtpTypes, ControlOK, FilesOK, ServerReads PROVE FilesOK'
<1>1. /\ session = "transfer" /\ ftpclient.call = "put"
      /\ UNCHANGED <<ftpclient, sent, original, copy, cut, unseen>>
  BY DEF ServerReads
<1>2. data.blocks \in Seq(Nat) /\ original.version \in Nat /\ tmpcopy \in Seq(Nat)
  BY DEF FtpTypes, DataType
<1>3. CASE data.blocks # <<>> /\ data' = Took /\ tmpcopy' = Append(tmpcopy, Head(data.blocks)) /\ UNCHANGED replies
  <2>1. data'.blocks = Tail(data.blocks)
    BY <1>3, BlockMoved
  <2>2. /\ Head(data.blocks) \in Nat
        /\ AllOf(data.blocks, original.version) =>
             AllOf(data'.blocks, original.version) /\ Head(data.blocks) = original.version
    BY <1>2, <1>3, <2>1, BlockTaken
  <2>3. AllOf(data.blocks, original.version) /\ AllOf(tmpcopy, original.version) =>
          AllOf(tmpcopy', original.version)
    BY <1>2, <1>3, <2>2, BlockAdded
  <2>4. Began => TransferOK'
    BY <1>1, <2>2, <2>3 DEF FilesOK, TransferOK, Current
  <2>. QED  BY <1>1, <1>3, <2>4, ServerInTransfer
<1>4. CASE UNCHANGED <<data, tmpcopy>> /\ replies' = Reply("2", 0)
  <2>1. Began => TransferOK'
    BY <1>1, <1>4 DEF FilesOK, TransferOK, Current
  <2>. QED  BY <1>1, <1>4, <2>1, ServerInTransfer
<1>. QED  BY <1>3, <1>4 DEF ServerReads

\* The server gives the transfer up, or takes up the connection.
LEMMA ServerEndsFiles ==
  ASSUME FtpTypes, ControlOK, FilesOK, ServerAborts \/ NoDial \/ Dial
  PROVE  FilesOK'
<1>1. /\ session = "transfer"
      /\ UNCHANGED <<ftpclient, sent, original, tmpcopy, copy, cut, unseen>>
      /\ UNCHANGED replies \/ replies' = Reply("4", 0)
  BY DEF ServerAborts, NoDial, Dial, fileVars
<1>2. /\ data'.blocks = data.blocks /\ data'.moved = data.moved
      /\ data'.at = data.at \/ (data.at = "listen" /\ data'.at = "open")
  BY DEF ServerAborts, NoDial, Dial, FtpTypes, DataType
<1>3. Began => TransferOK'
  BY <1>1, <1>2 DEF FilesOK, TransferOK, Current
<1>. QED  BY <1>1, <1>3, ServerInTransfer

LEMMA CloseDataFiles == ASSUME FtpTypes, ControlOK, FilesOK, CloseData PROVE FilesOK'
<1>1. /\ ftpclient.step \in {"close", "giveup"} /\ ~ftpclient.waits /\ data' = ClosedData
      /\ UNCHANGED <<original, tmpcopy, copy, cut, unseen>>
  BY DEF CloseData, fileVars
<1>2. CASE ftpclient.step = "giveup"
  <2>1. ftpclient'.step \in {"giveup", "ready"}
    BY <1>2, GotoIs DEF CloseData, FtpTypes, ClientType
  <2>. QED  BY <2>1, FreeFiles
<1>3. CASE ftpclient.step = "close"
  <2>1. response.code = "1"
    BY <1>1, <1>3, CommandsAre DEF ControlOK
  <2>2. /\ ftpclient'.step = "close" /\ ftpclient'.call = ftpclient.call
        /\ ftpclient'.mtime = ftpclient.mtime
    BY <1>3, <2>1 DEF CloseData, FtpTypes, ClientType
  <2>3. data'.blocks = data.blocks \/ data'.blocks = <<>>
    BY <1>1 DEF ClosedData, NoData, FtpTypes, DataType
  <2>4. ftpclient.call = "get" => data' = data
    BY <1>1, <1>3 DEF ClosedData, FilesOK, TransferOK, Began
  <2>5. TransferOK'
    BY <1>1, <1>3, <2>2, <2>3, <2>4, NoBlocks DEF FilesOK, TransferOK, Current, Began
  <2>. QED  BY <1>1, <1>3, <2>2, <2>5, ClientInTransfer
<1>. QED  BY <1>1, <1>2, <1>3

LEMMA LastReplyFiles == ASSUME FtpTypes, FilesOK, LastReply PROVE FilesOK'
<1>1. /\ ftpclient.step \in {"close", "giveup"} /\ UNCHANGED <<data, original, tmpcopy, copy, cut, unseen>>
      /\ Goto(AfterTransfer)
  BY DEF LastReply, fileVars
<1>2. /\ ftpclient'.step = AfterTransfer /\ ftpclient'.call = ftpclient.call /\ ftpclient'.waits = FALSE
      /\ ftpclient'.mtime = ftpclient.mtime
  BY <1>1, GotoIs DEF FtpTypes
<1>3. CASE AfterTransfer = "ready"
  BY <1>2, <1>3, FreeFiles
<1>4. CASE AfterTransfer # "ready"
  <2>1. /\ ftpclient.step = "close"
        /\ \/ ftpclient.call = "get" /\ AfterTransfer = "mtime2"
           \/ ftpclient.call = "put" /\ AfterTransfer = "checklocal"
    BY <1>1, <1>4 DEF AfterTransfer
  <2>2. original.mtime >= ftpclient.mtime /\ (Current => AllOf(tmpcopy, original.version))
    BY <2>1 DEF FilesOK, TimeOK, TransferOK, Began
  <2>3. ftpclient.call = "get" /\ ~cut => Len(tmpcopy) = Blocks
    <3>1. ASSUME ftpclient.call = "get", ~cut
          PROVE  Len(tmpcopy) + Len(data.blocks) = Blocks /\ data.blocks = <<>>
      BY <2>1, <3>1 DEF FilesOK, TransferOK, Began
    <3>2. Len(tmpcopy) \in Nat
      BY DEF FtpTypes
    <3>. QED  BY <3>1, <3>2, NoBlocks
  <2>. QED  BY <1>1, <1>2, <2>1, <2>2, <2>3
            DEF FilesOK, CallOK, TimeOK, BeforeOK, Began, TransferOK, GotOK, Renamed, PutOK, GotReply, Current
<1>. QED  BY <1>3, <1>4

\* The calls begin, the checks, and the rewriting of the file.
LEMMA CallFiles == ASSUME FtpTypes, ControlOK, Call PROVE FilesOK'
<1>1. ftpclient.step = "ready" /\ ~ftpclient.waits
  BY CommandsAre DEF Call, ControlOK
<1>2. /\ ftpclient'.waits = FALSE
      /\ \/ ftpclient'.call = "get" /\ ftpclient'.step = "mtime"
         \/ ftpclient'.call = "put" /\ ftpclient'.step = "type" /\ ftpclient'.mtime = original.mtime
         \/ ftpclient'.call = "nlist" /\ ftpclient'.step = "type"
         \/ ftpclient'.step = "other"
  BY <1>1 DEF Call, FtpTypes, ClientType
<1>3. original' = original /\ original.mtime \in Nat
  BY DEF Call, FtpTypes
<1>. QED  BY <1>2, <1>3
          DEF FilesOK, CallOK, TimeOK, BeforeOK, Began, TransferOK, GotOK, Renamed, PutOK, GotReply

LEMMA CheckFiles == ASSUME FtpTypes, ControlOK, FilesOK, CheckGet \/ CheckPut PROVE FilesOK'
<1>1. ftpclient.step \in {"checktime", "checklocal", "checksize"}
  BY DEF CheckGet, CheckPut
<1>2. ~ftpclient.waits
  BY <1>1, CommandsAre DEF ControlOK
<1>3. CASE ftpclient.step = "checklocal" /\ original.mtime = ftpclient.mtime
  <2>1. Goto("rename") /\ UNCHANGED <<tmpcopy, unseen>>
    BY <1>3 DEF CheckGet, CheckPut
  <2>2. ftpclient'.step = "rename" /\ ftpclient'.call = "put" /\ ftpclient'.waits = FALSE
    BY <1>3, <2>1, GotoIs DEF FtpTypes, FilesOK, CallOK
  <2>3. ~unseen => Same(tmpcopy)
    <3>1. tmpcopy \in Seq(Nat) /\ (~unseen => AllOf(tmpcopy, original.version))
      BY <1>3 DEF FtpTypes, FilesOK, GotOK, Current
    <3>. QED  BY <3>1, AllSame
  <2>. QED  BY <2>1, <2>2, <2>3
            DEF FilesOK, CallOK, TimeOK, BeforeOK, Began, TransferOK, GotOK, Renamed, PutOK, GotReply
<1>4. CASE ~(ftpclient.step = "checklocal" /\ original.mtime = ftpclient.mtime)
  <2>1. \E step \in {"ready", "remove", "removefinal"} : Goto(step)
    BY <1>4 DEF CheckGet, CheckPut, ReturnTrue
  <2>2. ftpclient'.step \in {"ready", "remove", "removefinal"}
    BY <2>1, GotoIs DEF FtpTypes
  <2>. QED  BY <2>2, FreeFiles
<1>. QED  BY <1>3, <1>4

LEMMA RewriteFiles == ASSUME FtpTypes, FilesOK, Rewrite PROVE FilesOK'
<1>1. UNCHANGED <<ftpclient, replies, data, tmpcopy, copy, cut>>
  BY DEF Rewrite, serverVars
<1>2. original.mtime \in Nat /\ ftpclient.mtime \in Nat
  BY DEF FtpTypes, ClientType
<1>3. CASE ~UnderWay
  <2>1. ftpclient'.step \in {"offline", "ready"}
    BY <1>1, <1>3 DEF UnderWay
  <2>. QED  BY <2>1, FreeFiles
<1>4. CASE UnderWay
  <2>1. \/ unseen' /\ original'.mtime = original.mtime
        \/ (unseen => unseen') /\ original'.mtime = original.mtime + 1
    <3>1. PICK second \in {0, 1} :
            /\ original' = [version |-> original.version + 1, mtime |-> original.mtime + second]
            /\ unseen' = (unseen \/ (UnderWay /\ second = 0))
      BY DEF Rewrite
    <3>2. original'.mtime = original.mtime + second
      BY <3>1
    <3>3. unseen => unseen'
      BY <3>1, Zenon
    <3>4. second = 0 => unseen'
      BY <1>4, <3>1, Zenon
    <3>. QED  BY <1>2, <3>2, <3>3, <3>4
  <2>2. TimeOK'
    <3>1. ftpclient.step = "mtime" /\ GotReply("2") => replies[1].value \in Nat
      <4>1. replies \in Seq(ReplyType) /\ (replies # <<>> => replies[1] \in ReplyType)
        BY DEF FtpTypes
      <4>. QED  BY <4>1 DEF GotReply, ReplyType
    <3>2. original'.mtime >= original.mtime /\ original'.mtime \in Nat
      BY <1>2, <2>1
    <3>. QED  BY <1>1, <1>2, <3>1, <3>2 DEF FilesOK, TimeOK, GotReply
  <2>3. ~unseen' => ~unseen /\ (original.mtime >= ftpclient.mtime => ~Current')
    BY <1>1, <1>2, <2>1 DEF Current
  <2>4. unseen' => ~Current'
    BY DEF Current
  <2>5. CallOK' /\ BeforeOK'
    BY <1>1 DEF FilesOK, CallOK, BeforeOK, EmptyData, Began, GotReply
  <2>6. TransferOK'
    BY <1>1, <2>3, <2>4 DEF FilesOK, TimeOK, TransferOK, Began, GotReply
  <2>7. GotOK'
    <3>1. ftpclient.step = "mtime2" => ftpclient.call = "get" /\ original.mtime >= ftpclient.mtime
      BY DEF FilesOK, CallOK, TimeOK
    <3>2. ftpclient.step = "checklocal" => ftpclient.call = "put" /\ original.mtime >= ftpclient.mtime
      BY DEF FilesOK, CallOK, TimeOK
    <3>. QED  BY <1>1, <2>3, <2>4, <3>1, <3>2 DEF FilesOK, GotOK, GotReply
  <2>8. PutOK'
    BY <1>1, <2>3 DEF FilesOK, PutOK, Renamed, GotReply
  <2>. QED  BY <2>2, <2>5, <2>6, <2>7, <2>8 DEF FilesOK
<1>. QED  BY <1>3, <1>4

LEMMA LossFiles == ASSUME FtpTypes, ControlOK, FilesOK, BreakData \/ DiskFull PROVE FilesOK'
<1>1. cut' = TRUE /\ UNCHANGED <<sent, original, tmpcopy, copy, unseen>>
  BY DEF BreakData, DiskFull
<1>2. CASE BreakData
  <2>1. /\ data'.blocks = <<>> /\ data'.at \in {"ended", "broken"} /\ data.at \in {"open", "ended"}
        /\ UNCHANGED <<ftpclient, replies>>
    BY <1>2 DEF BreakData, FtpTypes, DataType
  <2>2. TimeOK' /\ CallOK' /\ PutOK' /\ GotOK'
    BY <1>1, <2>1 DEF FilesOK, TimeOK, CallOK, PutOK, GotOK, Renamed, GotReply, Current
  <2>3. BeforeOK'
    BY <1>1, <2>1 DEF FilesOK, BeforeOK, EmptyData, Began, GotReply
  <2>4. TransferOK'
    BY <1>1, <2>1, NoBlocks DEF FilesOK, TransferOK, Began, GotReply, Current
  <2>. QED  BY <2>2, <2>3, <2>4 DEF FilesOK
<1>3. CASE DiskFull /\ ftpclient.call # "put" /\ ftpclient.step = "move" /\ data' = Took
           /\ data.blocks # <<>> /\ (UNCHANGED ftpclient \/ Goto("giveup"))
  <2>1. CASE Goto("giveup")
    <3>1. ftpclient'.step = "giveup"
      BY <2>1, GotoIs DEF FtpTypes
    <3>. QED  BY <3>1, FreeFiles
  <2>2. CASE UNCHANGED ftpclient
    <3>1. data'.blocks = Tail(data.blocks) /\ data.blocks \in Seq(Nat)
      BY <1>3, BlockMoved DEF FtpTypes, DataType
    <3>2. AllOf(data.blocks, original.version) => AllOf(data'.blocks, original.version)
      BY <1>3, <3>1, BlockTaken
    <3>3. TransferOK'
      BY <1>1, <1>3, <2>2, <3>2 DEF FilesOK, TransferOK, Began, Current
    <3>. QED  BY <1>1, <1>3, <2>2, <3>3, ClientInTransfer
  <2>. QED  BY <1>3, <2>1, <2>2
<1>4. CASE DiskFull /\ ftpclient.call = "put" /\ session = "transfer" /\ UNCHANGED ftpclient
           /\ data' = [data EXCEPT !.at = "broken", !.blocks = <<>>] /\ replies' = Reply("4", 0)
  <2>1. data'.blocks = <<>>
    BY <1>4 DEF FtpTypes, DataType
  <2>2. Began => TransferOK'
    BY <1>1, <1>4, <2>1, NoBlocks DEF FilesOK, TransferOK, Current
  <2>. QED  BY <1>1, <1>4, <2>2, ServerInTransfer
<1>. QED  BY <1>2, <1>3, <1>4 DEF DiskFull

LEMMA FilesStep == ASSUME FtpTypes, ControlOK, FilesOK, FtpNext PROVE FilesOK'
<1>1. CASE FtpConnect \/ FtpQuit \/ Hangup
  <2>1. ftpclient'.step \in {"user", "offline"}
    BY <1>1 DEF FtpConnect, FtpQuit, Hangup, HungUp, Offline
  <2>. QED  BY <2>1, FreeFiles
<1>2. CASE SendCmd
  <2>1. replies = <<>>
    BY <1>2, CommandsAre DEF SendCmd, ControlOK, Quiet
  <2>2. /\ ftpclient'.step = ftpclient.step /\ ftpclient'.call = ftpclient.call
        /\ ftpclient'.mtime = ftpclient.mtime /\ ftpclient'.value = ftpclient.value
    BY <1>2 DEF SendCmd, FtpTypes, ClientType
  <2>. QED  BY <1>2, <2>1, <2>2, SentFiles DEF SendCmd, fileVars
<1>3. CASE AcceptData
  <2>1. /\ ftpclient'.step = "move" /\ ftpclient'.call = ftpclient.call
        /\ ftpclient'.mtime = ftpclient.mtime
    BY <1>3, GotoIs DEF AcceptData, FtpTypes
  <2>2. TransferOK'
    BY <1>3, <2>1 DEF AcceptData, serverVars, fileVars, FilesOK, TransferOK, Began, Current
  <2>. QED  BY <1>3, <2>1, <2>2, ClientInTransfer DEF AcceptData, fileVars
<1>4. CASE AcceptReply \/ AcceptTimeout
  <2>1. ftpclient'.step = "giveup"
    BY <1>4, GotoIs DEF AcceptReply, AcceptTimeout, FtpTypes
  <2>. QED  BY <2>1, FreeFiles
<1>5. CASE Refuse
  <2>1. replies = <<>>
    BY <1>5, ObeyControl DEF Refuse
  <2>2. PICK code \in {"4", "5"} : replies' = Reply(code, 0)
    BY <1>5 DEF Refuse
  <2>3. replies' # <<>> /\ replies'[1] = [no |-> sent, code |-> code, value |-> 0]
    BY <2>1, <2>2, RepliesGrow
  <2>4. replies'[1].code \in {"4", "5"}
    BY <2>3
  <2>. QED  BY <1>5, <2>1, <2>3, <2>4, RefusedFiles DEF Refuse, fileVars
<1>. QED  BY <1>1, <1>2, <1>3, <1>4, <1>5, CallFiles, ObeyFiles, ReadRespFiles, ServerSendsFiles,
             ClientReadsFiles, ClientWritesFiles, ServerReadsFiles, ServerEndsFiles, CloseDataFiles,
             LastReplyFiles, CheckFiles, RewriteFiles, LossFiles DEF FtpNext, FtpFault

\* What is accepted is what the checks let through.
LEMMA AcceptedStep == ASSUME FtpTypes, FilesOK, AcceptedIsWhole, FtpNext PROVE AcceptedIsWhole'
<1>1. CASE UNCHANGED accepted
  BY <1>1 DEF AcceptedIsWhole, Whole
<1>2. CASE CheckGet
  <2>1. CASE ftpclient.value = ftpclient.mtime
    <3>1. /\ ftpclient.step = "checktime"
          /\ accepted' = {[call |-> ftpclient.call, content |-> tmpcopy, cut |-> cut, unseen |-> unseen]}
      BY <1>2, <2>1 DEF CheckGet, ReturnTrue
    <3>2. /\ ftpclient.call = "get" /\ (~cut => Len(tmpcopy) = Blocks) /\ (~unseen => Same(tmpcopy))
      BY <2>1, <3>1 DEF FilesOK, CallOK, GotOK
    <3>3. Whole(tmpcopy) \/ unseen \/ cut
      BY <3>2 DEF Whole, Same
    <3>. QED  BY <3>1, <3>2, <3>3 DEF AcceptedIsWhole, Whole
  <2>2. CASE ftpclient.value # ftpclient.mtime
    BY <1>1, <1>2, <2>2 DEF CheckGet
  <2>. QED  BY <2>1, <2>2
<1>3. CASE CheckPut
  <2>1. CASE ftpclient.step = "checksize" /\ ftpclient.value = Blocks
    <3>1. accepted' = {[call |-> ftpclient.call, content |-> copy, cut |-> cut, unseen |-> unseen]}
      BY <1>3, <2>1 DEF CheckPut, ReturnTrue
    <3>2. Len(copy) = Blocks /\ (~unseen => Same(copy))
      BY <2>1 DEF FilesOK, PutOK, Renamed
    <3>3. Whole(copy) \/ unseen
      BY <3>2 DEF Whole, Same
    <3>. QED  BY <3>1, <3>3 DEF AcceptedIsWhole, Whole
  <2>2. CASE ~(ftpclient.step = "checksize" /\ ftpclient.value = Blocks)
    BY <1>1, <1>3, <2>2 DEF CheckPut
  <2>. QED  BY <2>1, <2>2
<1>4. CASE ~CheckGet /\ ~CheckPut
  <2>1. UNCHANGED accepted
    BY <1>4 DEF FtpNext, FtpConnect, FtpQuit, Call, SendCmd, Obey, ReadResp, Dial, AcceptData, AcceptReply,
                ServerSends, ClientReads, ClientWrites, ServerReads, ServerAborts, CloseData, LastReply,
                Rewrite, FtpFault, Refuse, BreakData, NoDial, AcceptTimeout, DiskFull, Hangup, fileVars
  <2>. QED  BY <1>1, <2>1
<1>. QED  BY <1>2, <1>3, <1>4

LEMMA FilesInv == FtpSpec => [](ControlOK /\ FilesOK /\ AcceptedIsWhole)
<1>1. FtpInit => ControlOK /\ FilesOK /\ AcceptedIsWhole
  <2>. SUFFICES ASSUME FtpInit PROVE ControlOK /\ FilesOK /\ AcceptedIsWhole
    OBVIOUS
  <2>1. ControlOK
    BY CommandsAre DEF FtpInit, ControlOK, Quiet, Offline, NoReply
  <2>2. FilesOK
    BY DEF FtpInit, Offline, FilesOK, CallOK, TimeOK, BeforeOK, Began, TransferOK, GotOK, Renamed, PutOK
  <2>3. AcceptedIsWhole
    BY DEF FtpInit, AcceptedIsWhole
  <2>. QED  BY <2>1, <2>2, <2>3
<1>2. FtpTypes /\ ControlOK /\ FilesOK /\ AcceptedIsWhole /\ [FtpNext]_ftpVars =>
        (ControlOK /\ FilesOK /\ AcceptedIsWhole)'
  <2>. SUFFICES ASSUME FtpTypes, ControlOK, FilesOK, AcceptedIsWhole, [FtpNext]_ftpVars
                PROVE  (ControlOK /\ FilesOK /\ AcceptedIsWhole)'
    OBVIOUS
  <2>1. CASE UNCHANGED ftpVars
    <3>1. ControlOK'
      BY <2>1, DataControl DEF ftpVars, serverVars
    <3>2. FilesOK'
      BY <2>1 DEF ftpVars, serverVars, fileVars, FilesOK, CallOK, TimeOK, BeforeOK, EmptyData, Began,
                  TransferOK, GotOK, Renamed, PutOK, GotReply, Current
    <3>3. AcceptedIsWhole'
      BY <2>1 DEF ftpVars, fileVars, AcceptedIsWhole, Whole
    <3>. QED  BY <3>1, <3>2, <3>3
  <2>2. CASE FtpNext
    BY <2>2, ControlStep, ControlFault, FilesStep, AcceptedStep
  <2>. QED  BY <2>1, <2>2
<1>. QED  BY <1>1, <1>2, FtpTypesCorrect, PTL DEF FtpSpec

(* For any number of blocks, versions, commands and faults: a reply is     *)
(* judged for the command that was sent last, and none is left over when   *)
(* the next one is sent (FtpClose(), ftplib.c:1277); and what get() and    *)
(* put() accept is one version from the first block to the last, unless    *)
(* it was rewritten within the second of its time or a get() lost a block. *)
THEOREM TransfersInStepCorrect == FtpSpec => []TransfersInStep
<1>1. FtpTypes /\ ControlOK /\ FilesOK /\ AcceptedIsWhole => TransfersInStep
  BY ControlIsEnough DEF TransfersInStep
<1>. QED  BY <1>1, FtpTypesCorrect, FilesInv, PTL
=============================================================================
