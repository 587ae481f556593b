---------------------------- MODULE RowCollector ----------------------------
(***************************************************************************)
(* CollectUntilLimit: the rows of an SQL query are fetched page by page,   *)
(* and those that the filter of a check accepts are kept, until there are  *)
(* as many as the check may have, the rows end, or the bound on the rows   *)
(* looked at is met.  A row is its place in the result of the query, which *)
(* stays the same while the pages are read.                                *)
(***************************************************************************)
EXTENDS Integers, FiniteSets

CONSTANTS Requests,     \* the queries, filters and limits
          MinPage,      \* rows of a page, unless the limit is larger
          ScanRows      \* rows that are looked at, unless the caller says so

\* A request has rows, of which the filter accepts some, and the arguments of
\* the call; a page size or a bound of zero stands for the usual one.
ASSUME RequestsAssumption ==
    /\ Requests \subseteq [rows : Nat, accepted : SUBSET Nat, limit : Nat,
                           pageSize : Nat, maxScan : Nat]
    /\ \A r \in Requests : r.accepted \subseteq 1..r.rows
    /\ MinPage \in Nat \ {0} /\ ScanRows \in Nat \ {0}

VARIABLES request,  \* what is collected
          step,     \* what the loop does next
          offset,   \* rows of the earlier pages
          pageLen,  \* rows of this page
          inPage,   \* rows of it that have been looked at
          scanned,  \* rows looked at in all
          taken,    \* the rows kept
          count     \* and how many lines they are

collectVars == <<request, step, offset, pageLen, inPage, scanned, taken, count>>

PageSize == IF request.pageSize > 0 THEN request.pageSize
            ELSE IF request.limit > MinPage THEN request.limit ELSE MinPage

MaxScanned == IF request.maxScan > 0 THEN request.maxScan ELSE ScanRows

CollectInit == /\ request \in Requests
               /\ step = "fetch"
               /\ offset = 0 /\ pageLen = 0 /\ inPage = 0 /\ scanned = 0
               /\ taken = {} /\ count = 0

\* Another command is running.
CollectIdle == /\ request = CHOOSE r \in Requests : TRUE
               /\ step = "idle"
               /\ offset = 0 /\ pageLen = 0 /\ inPage = 0 /\ scanned = 0
               /\ taken = {} /\ count = 0

\* The rows of the page that LIMIT and OFFSET select.
RowsAt(start) == IF start + PageSize <= request.rows THEN PageSize
                 ELSE IF start <= request.rows THEN request.rows - start ELSE 0

FetchPage == /\ step = "fetch"
             /\ IF count >= request.limit \/ RowsAt(offset) = 0
                THEN /\ step' = "done"
                     /\ UNCHANGED <<pageLen, inPage>>
                ELSE /\ step' = "scan"
                     /\ pageLen' = RowsAt(offset)
                     /\ inPage' = 0
             /\ UNCHANGED <<request, offset, scanned, taken, count>>

Accept == scanned' <= MaxScanned /\ offset + inPage' \in request.accepted

LookAtRow == /\ step = "scan" /\ inPage < pageLen
             /\ inPage'  = inPage + 1
             /\ scanned' = scanned + 1
             /\ IF Accept
                THEN /\ taken' = taken \cup {offset + inPage'}
                     /\ count' = count + 1
                ELSE UNCHANGED <<taken, count>>
             /\ step' = IF scanned' > MaxScanned \/ (Accept /\ count' >= request.limit)
                        THEN "done" ELSE "scan"
             /\ UNCHANGED <<request, offset, pageLen>>

\* Mutant: the next page starts one row early.
OverlappingOffset(rows) == offset + rows - 1
NextOffset(rows) == offset + rows

\* A page that is not full is the last.
EndPage == /\ step = "scan" /\ inPage = pageLen
           /\ IF pageLen < PageSize
              THEN /\ step' = "done"
                   /\ UNCHANGED offset
              ELSE /\ step' = "fetch"
                   /\ offset' = NextOffset(pageLen)
           /\ UNCHANGED <<request, pageLen, inPage, scanned, taken, count>>

CollectNext == FetchPage \/ LookAtRow \/ EndPage

CollectSpec == CollectInit /\ [][CollectNext]_collectVars

-----------------------------------------------------------------------------
(* Properties.                                                             *)

CollectTypeOK == /\ request \in Requests
                 /\ step \in {"idle", "fetch", "scan", "done"}
                 /\ {offset, pageLen, inPage, scanned, count} \subseteq Nat
                 /\ taken \subseteq request.accepted

\* A check gets the rows it would get from one pass over the whole query: the
\* first ones that its filter accepts, each once, as many as it asked for; it has
\* fewer only when no more are accepted within the bound on rows looked at.
PagingIsInvisible ==
    /\ count = Cardinality(taken)
    /\ count <= request.limit
    /\ \A r \in taken : \A q \in request.accepted : q < r => q \in taken
    /\ \A r \in taken : r <= MaxScanned
    /\ step = "done" /\ count < request.limit
       => \A r \in request.accepted : r <= MaxScanned => r \in taken
=============================================================================
