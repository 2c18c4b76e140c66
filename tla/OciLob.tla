------------------------------- MODULE OciLob --------------------------------
(***************************************************************************)
(* A file copied into a LOB field and a LOB field copied into a file, in   *)
(* pieces of LOBMAXBUFLEN (sqlstatement::filetolob() and lobtofile() of    *)
(* public/db/oracle/_ooci.cpp).                                            *)
(*                                                                         *)
(* The LOB is external.  OCILobWrite() answers OCI_NEED_DATA to a first    *)
(* and a next piece and OCI_SUCCESS to the last one, and leaves what lies  *)
(* behind the bytes it writes; OCILobRead() answers OCI_NEED_DATA while    *)
(* there is more; both may fail at each piece.                             *)
(***************************************************************************)
EXTENDS Naturals, Sequences

CONSTANTS LOBMAXBUFLEN,
          MaxBytes      \* bound: the bytes of a file or a LOB

ASSUME LobAssumption == LOBMAXBUFLEN \in Nat \ {0} /\ MaxBytes \in Nat

VARIABLES way,        \* "filetolob" or "lobtofile"
          length,     \* the bytes of the source (filelen, loblen)
          target,     \* the bytes of the target: the LOB or the file
          removed,    \* the file was removed
          step,       \* the next step of filetolob() or lobtofile()
          done,       \* the bytes that were written to the LOB or read from it
          remainder,  \* the bytes of the file not yet read
          bufp,       \* the piece in the buffer
          retval,     \* what the last call of OCI returned
          iret,         \* what the method returned
          failed      \* history: what failed

lobVars == <<way, length, target, removed, step, done, remainder, bufp, retval, iret, failed>>

\* The bytes of the source are numbered; Before is one that was in the target.
Before == 0
Source == [i \in 1..length |-> i]
(* The bytes of a piece.                                                   *)
Lesser(m, n) == IF m < n THEN m ELSE n

StepTo(l) == step' = l
ReturnWith(code) == iret' = code /\ StepTo("return")

-----------------------------------------------------------------------------

(* A LOB may hold something; a file is empty once it is open.              *)
LobInit == /\ length \in 0..MaxBytes
           /\ \/ way = "filetolob" /\ \E n \in 0..MaxBytes : target = [i \in 1..n |-> Before]
              \/ way = "lobtofile" /\ target = <<>>
           /\ removed = FALSE
           /\ step = "open"
           /\ done = 0 /\ remainder = length
           /\ bufp = <<>>
           /\ retval = "none" /\ iret = "none"
           /\ failed = {}

OpenFails == /\ step = "open"
             /\ ReturnWith("-1")
             /\ failed' = {"open"}
             /\ UNCHANGED <<way, length, target, removed, done, remainder, bufp, retval>>

(* A source without bytes is a success, and leaves the target as it is.    *)
Open == /\ step = "open"
        /\ IF length = 0 THEN ReturnWith("0")
           ELSE StepTo(IF way = "filetolob" THEN "readfile" ELSE "readlob") /\ iret' = iret
        /\ UNCHANGED <<way, length, target, removed, done, remainder, bufp, retval, failed>>

-----------------------------------------------------------------------------
(* filetolob().                                                            *)

(* fread() of the next piece.                                              *)
ReadFile == /\ step = "readfile" /\ remainder > 0
            /\ bufp' = [i \in 1..Lesser(remainder, LOBMAXBUFLEN) |-> length - remainder + i]
            /\ remainder' = remainder - Len(bufp')
            /\ StepTo("writelob")
            /\ UNCHANGED <<way, length, target, removed, done, retval, iret, failed>>

\* At the end of the file, which may have become shorter.
ReadFileFails == /\ step = "readfile"
                 /\ ReturnWith("-1")
                 /\ failed' = failed \union (IF remainder > 0 THEN {"read"} ELSE {})
                 /\ UNCHANGED <<way, length, target, removed, done, remainder, bufp, retval>>

(* OCI_ONE_PIECE and OCI_LAST_PIECE end the write.                         *)
PieceKind == IF remainder = 0 THEN "last" ELSE "next"

(* The LOB with the piece in its place.                                    *)
Written == [i \in 1..(IF done + Len(bufp) > Len(target) THEN done + Len(bufp) ELSE Len(target)) |->
              IF i \in done + 1..done + Len(bufp) THEN bufp[i - done] ELSE target[i]]

WriteLob == /\ step = "writelob"
            /\ target' = Written
            /\ done' = done + Len(bufp)
            /\ IF PieceKind = "last" THEN retval' = "OCI_SUCCESS" /\ ReturnWith("0")
               ELSE retval' = "OCI_NEED_DATA" /\ StepTo("readfile") /\ iret' = iret
            /\ UNCHANGED <<way, length, removed, remainder, bufp, failed>>

WriteLobFails == /\ step = "writelob"
                 /\ retval' = "OCI_ERROR"
                 /\ ReturnWith("error")
                 /\ failed' = failed \union {"write"}
                 /\ UNCHANGED <<way, length, target, removed, done, remainder, bufp>>

-----------------------------------------------------------------------------
(* lobtofile().                                                            *)

ReadLob == /\ step = "readlob"
           /\ bufp' = [i \in 1..Lesser(length - done, LOBMAXBUFLEN) |-> done + i]
           /\ done' = done + Len(bufp')
           /\ retval' = IF done' = length THEN "OCI_SUCCESS" ELSE "OCI_NEED_DATA"
           /\ StepTo("writefile")
           /\ UNCHANGED <<way, length, target, removed, remainder, iret, failed>>

(* Only at the first piece does an error return an error.                  *)
ReadLobFails == /\ step = "readlob"
                /\ retval' = "OCI_ERROR"
                /\ IF done = 0 THEN ReturnWith("error") ELSE StepTo("writefile") /\ iret' = iret
                /\ bufp' = <<>>
                /\ failed' = failed \union {"read"}
                /\ UNCHANGED <<way, length, target, removed, done, remainder>>

\* Mutation, for the checks of the properties.
AgainNot == retval # "OCI_NEED_DATA"

\* The loop reads on.
Again == retval = "OCI_NEED_DATA"

AfterWrite == IF Again THEN StepTo("readlob") /\ iret' = iret ELSE ReturnWith("0")

WriteFile == /\ step = "writefile"
             /\ target' = target \o bufp
             /\ AfterWrite
             /\ UNCHANGED <<way, length, removed, done, remainder, bufp, retval, failed>>

(* A full disk takes a part of the piece; nobody looks at the result of    *)
(* fwrite().                                                               *)
WriteFileFails == /\ step = "writefile" /\ bufp # <<>>
                  /\ \E n \in 0..Len(bufp) - 1 : target' = target \o SubSeq(bufp, 1, n)
                  /\ AfterWrite
                  /\ failed' = failed \union {"write"}
                  /\ UNCHANGED <<way, length, removed, done, remainder, bufp, retval>>

(* The file is closed, and removed if the method failed with it open.      *)
CloseFile == /\ step = "return"
             /\ removed' = (way = "lobtofile" /\ iret # "0" /\ "open" \notin failed)
             /\ StepTo("returned")
             /\ UNCHANGED <<way, length, target, done, remainder, bufp, retval, iret, failed>>

LobNext == \/ OpenFails \/ Open
           \/ ReadFile \/ ReadFileFails \/ WriteLob \/ WriteLobFails
           \/ ReadLob \/ ReadLobFails \/ WriteFile \/ WriteFileFails
           \/ CloseFile

LobSpec == LobInit /\ [][LobNext]_lobVars

-----------------------------------------------------------------------------

LobSizes == /\ length \in 0..MaxBytes /\ done \in 0..length /\ remainder \in 0..length
            /\ target \in Seq(0..MaxBytes) /\ bufp \in Seq(1..MaxBytes)
            /\ Len(bufp) <= LOBMAXBUFLEN

LobStates == /\ way \in {"filetolob", "lobtofile"}
             /\ removed \in BOOLEAN
             /\ step \in {"open", "readfile", "writelob", "readlob", "writefile", "return", "returned"}
             /\ retval \in {"none", "OCI_SUCCESS", "OCI_NEED_DATA", "OCI_ERROR"}
             /\ iret \in {"none", "0", "-1", "error"}
             /\ failed \subseteq {"open", "read", "write"}

LobTypes == LobSizes /\ LobStates

(* A file that was copied into a LOB with success is in it byte by byte,   *)
(* whatever the number of pieces and also when the last one is full; what  *)
(* is behind it was there before.                                          *)
LobHoldsFile == way = "filetolob" /\ iret = "0" =>
                  /\ Len(target) >= length
                  /\ \A i \in 1..Len(target) : target[i] = IF i <= length THEN i ELSE Before

(* A file made from a LOB holds its bytes in order; it is the whole LOB,   *)
(* with a success for the caller, unless something failed.                 *)
FileHoldsLob == way = "lobtofile" =>
                  /\ "write" \notin failed => \A i \in 1..Len(target) : target[i] = i
                  /\ iret # "none" /\ failed = {} => iret = "0" /\ target = Source

(* A copy is exact, in both directions.                                    *)
CopyIsExact == LobHoldsFile /\ FileHoldsLob

=============================================================================
