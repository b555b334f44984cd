-------------------------------- MODULE AuditLog --------------------------------
(***************************************************************************)
(* The audit log of yma-audit with the page arithmetic of yma-pagination.  *)
(* A record is one INSERT.  A query is two statements, the count and the   *)
(* page, with nothing around them: records may be written in between.  The *)
(* database is a number of rows, numbered as they are written; every row   *)
(* has its own time.                                                       *)
(***************************************************************************)
EXTENDS Integers, Sequences, SequencesExt, FiniteSets

CONSTANTS
  AuditPages,             (* the pages asked for                           *)
  AuditSizes,             (* the page sizes asked for                      *)
  NotGiven,               (* a parameter that is missing                   *)
  DefaultPageSize,        (* 20 in the code                                *)
  LargestPageSize,        (* 100 in the code                               *)
  WordSize,               (* the integers wrap at this number              *)
  AuditTasks,
  MaxRows                 (* bound on the rows written                     *)

\* The integers count more rows than there are, and a page more.
ASSUME AuditBounds ==
  /\ AuditPages \cup AuditSizes \subseteq Nat
  /\ NotGiven \notin AuditPages \cup AuditSizes
  /\ DefaultPageSize \in 1..LargestPageSize
  /\ {LargestPageSize, MaxRows} \subseteq Nat
  /\ WordSize \in Nat \ {0}
  /\ MaxRows + LargestPageSize <= WordSize

VARIABLES
  written,                (* how many rows have been written               *)
  auditCall,              (* auditCall[t]: the query t is in the middle of *)
  auditResult             (* the last answer of a query, with whether rows *)
                          (* were written while it ran                     *)

auditVars == <<written, auditCall, auditResult>>

NoAuditCall == [at |-> "none"]
NoAuditResult == [given |-> FALSE]

-----------------------------------------------------------------------------
(* yma-pagination. *)

\* parse_pagination_params
ParsePage(page) == IF page = NotGiven \/ page = 0 THEN 1 ELSE page
ParseSize(size) ==
  CASE size = NotGiven -> DefaultPageSize
    [] size = 0 -> 1
    [] size # NotGiven /\ size > LargestPageSize -> LargestPageSize
    [] OTHER -> size

\* Pagination::new: a size of zero is the default here, not one.
NewPagination(page, size, total) ==
  LET page_size == IF size = 0 THEN DefaultPageSize
                   ELSE IF size > LargestPageSize THEN LargestPageSize ELSE size
  IN  [page |-> IF page = 0 THEN 1 ELSE page, page_size |-> page_size,
       total |-> total, total_pages |-> (total + page_size - 1) \div page_size]

\* Pagination::offset; the product wraps in a release build.
Offset(page, size) == ((page - 1) * size) % WordSize

-----------------------------------------------------------------------------
AuditInit ==
  /\ written = 0
  /\ auditCall = [t \in AuditTasks |-> NoAuditCall]
  /\ auditResult = NoAuditResult

\* log
Log ==
  /\ written < MaxRows
  /\ written' = written + 1
  /\ auditCall' = [t \in AuditTasks |->
       IF auditCall[t] = NoAuditCall THEN NoAuditCall
       ELSE [auditCall[t] EXCEPT !.alone = FALSE]]
  /\ UNCHANGED auditResult

(***************************************************************************)
(* query: a filter becomes a condition with a numbered parameter, but no   *)
(* value is ever bound to one: the database refuses the first statement,   *)
(* and only a query without filters gets an answer.                        *)
(***************************************************************************)
QueryCounts(t, page, size) ==
  /\ auditCall[t] = NoAuditCall
  /\ auditCall' = [auditCall EXCEPT ![t] =
       [at |-> "counted", page |-> ParsePage(page), page_size |-> ParseSize(size),
        total |-> written, alone |-> TRUE]]
  /\ UNCHANGED <<written, auditResult>>

\* ORDER BY created_at DESC, the rows being numbered by the time they carry: which
\* of two rows of the same time comes first, and a row committed after a later one
\* was, are not modelled.
NewestFirst(count) == [i \in 1..count |-> count - i + 1]

QueryFetches(t) ==
  LET call  == auditCall[t]
      first == Offset(call.page, call.page_size)
      last  == IF first + call.page_size < written THEN first + call.page_size
               ELSE written
  IN  /\ call.at = "counted"
      /\ auditResult' = [given |-> TRUE, page |-> call.page,
                         page_size |-> call.page_size, total |-> call.total,
                         records |-> SubSeq(NewestFirst(written), first + 1, last),
                         alone |-> call.alone]
      /\ auditCall' = [auditCall EXCEPT ![t] = NoAuditCall]
      /\ UNCHANGED written

AuditNext ==
  \/ Log
  \/ \E t \in AuditTasks :
       \/ \E page \in AuditPages \cup {NotGiven}, size \in AuditSizes \cup {NotGiven} :
            QueryCounts(t, page, size)
       \/ QueryFetches(t)

-----------------------------------------------------------------------------
CountedCall ==
  [at : {"counted"}, page : Nat \ {0}, page_size : 1..LargestPageSize,
   total : 0..MaxRows, alone : BOOLEAN]

AuditAnswer ==
  [given : {TRUE}, page : Nat \ {0}, page_size : 1..LargestPageSize,
   total : 0..MaxRows, records : Seq(1..MaxRows), alone : BOOLEAN]

AuditTypeOK ==
  /\ written \in 0..MaxRows
  /\ auditCall \in [AuditTasks -> {NoAuditCall} \cup CountedCall]
  /\ auditResult \in {NoAuditResult} \cup AuditAnswer

\* A page holds the rows that have its place among the total, the newest first,
\* unless rows were written between the count and the page, or the offset wraps;
\* it is never larger than asked for, and the total never counts rows that were
\* not there.
PagesMatchTotal ==
  auditResult.given =>
    LET result == auditResult
        before == (result.page - 1) * result.page_size
    IN  /\ Len(result.records) <= result.page_size
        /\ result.total <= written
        /\ result.alone /\ before < WordSize =>
             ToSet(result.records) =
               {r \in 1..result.total : /\ r <= result.total - before
                                        /\ r > result.total - before - result.page_size}
        /\ \A i, j \in DOMAIN result.records :
             i < j => result.records[i] > result.records[j]

(***************************************************************************)
(* What the proof in SystemProofs needs besides: while no row is written,  *)
(* the count of a query is the number of rows.                             *)
(***************************************************************************)
CountsAreOfRows ==
  \A t \in AuditTasks : auditCall[t] # NoAuditCall =>
    /\ auditCall[t].total <= written
    /\ auditCall[t].alone = TRUE => auditCall[t].total = written

AuditInv == AuditTypeOK /\ CountsAreOfRows /\ PagesMatchTotal

AuditSpec == AuditInit /\ [][AuditNext]_auditVars

\* The pages of a listing cut it up: every item is on exactly one of the pages
\* there are said to be, as long as the offset does not wrap, and none is empty.
PagesCutUp ==
  \A size \in AuditSizes, total \in 0..MaxRows :
  LET first == NewPagination(1, size, total)
      On(item, page) == /\ Offset(page, first.page_size) <= item
                        /\ item < Offset(page, first.page_size) + first.page_size
  IN  /\ \A item \in 0..(total - 1) :
           Cardinality({p \in 1..first.total_pages : On(item, p)}) = 1
      /\ \A p \in 1..first.total_pages : \E item \in 0..(total - 1) : On(item, p)
      /\ ParseSize(size) = first.page_size \/ size = 0
      /\ NewPagination(0, size, total) = first
=============================================================================
