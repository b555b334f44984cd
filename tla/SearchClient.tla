----------------------------- MODULE SearchClient -----------------------------
(***************************************************************************)
(* The client of yma-search-client.  The search server takes every change  *)
(* as a task and runs the tasks later, in their order; the client posts a  *)
(* task and asks for it until it is over, but does not look at how it      *)
(* ended.  A request or its answer may be lost, and the waiting may take   *)
(* too long, with the task still to run.                                   *)
(***************************************************************************)
EXTENDS AuditLog

CONSTANTS
  SearchCalls,            (* the callers                                    *)
  IndexIds,
  PrimaryKeys,
  DocIds,
  NoIndex,                (* there is no such index                         *)
  MaxSearchTasks          (* bound on the tasks posted                      *)

ASSUME NoIndexIsNoKey == NoIndex \notin PrimaryKeys

VARIABLES
  primaryKey,             (* primaryKey[i]: of index i, or NoIndex          *)
  documents,              (* documents[i]: the documents in index i         *)
  searchTasks,            (* the tasks of the server, in their order        *)
  searchCall              (* searchCall[c]: where in its call caller c is   *)

searchVars == <<primaryKey, documents, searchTasks, searchCall>>

Creations == [kind : {"create"}, uid : IndexIds, key : PrimaryKeys]
Changes   == [kind : {"add", "delete"}, uid : IndexIds, docs : {{d} : d \in DocIds}]
             \cup [kind : {"delete"}, uid : IndexIds, docs : {DocIds}]

Idle(c) == searchCall[c].at \in {"none", "returned"}
Goes(c, to) == searchCall' = [searchCall EXCEPT ![c] = to]
Gives(c, op, task, ok) ==
  Goes(c, [at |-> "returned", op |-> op, task |-> task, ok |-> ok])

SearchInit ==
  /\ primaryKey = [i \in IndexIds |-> NoIndex]
  /\ documents = [i \in IndexIds |-> {}]
  /\ searchTasks = <<>>
  /\ searchCall = [c \in SearchCalls |-> [at |-> "none"]]

-----------------------------------------------------------------------------
\* add_documents, delete_document and delete_all_documents ask for the index
\* first; without it nothing is posted.
GetsIndex(c, op, lost) ==
  /\ Idle(c)
  /\ IF primaryKey[op.uid] = NoIndex \/ lost THEN Gives(c, op, 0, FALSE)
     ELSE Goes(c, [at |-> "found", op |-> op])
  /\ UNCHANGED <<primaryKey, documents, searchTasks>>

\* The request may not arrive, or arrive without the client hearing of it.
PostsTask(c, op, arrives, heard) ==
  /\ IF op.kind = "create" THEN Idle(c)
     ELSE searchCall[c] = [at |-> "found", op |-> op]
  /\ Len(searchTasks) < MaxSearchTasks
  /\ searchTasks' = IF arrives THEN Append(searchTasks, [op |-> op, status |-> "enqueued"])
                    ELSE searchTasks
  /\ IF arrives /\ heard
       THEN Goes(c, [at |-> "waiting", op |-> op, task |-> Len(searchTasks) + 1])
       ELSE Gives(c, op, 0, FALSE)
  /\ UNCHANGED <<primaryKey, documents>>

Over(task) == searchTasks[task].status # "enqueued"

\* wait_for_completion: the task is over, whether it succeeded or failed, and
\* create_index goes on to get the index.
WaitEnds(c) ==
  LET call == searchCall[c]
  IN  /\ call.at = "waiting"
      /\ Over(call.task)
      /\ IF call.op.kind = "create" THEN Goes(c, [call EXCEPT !.at = "getting"])
         ELSE Gives(c, call.op, call.task, TRUE)
      /\ UNCHANGED <<primaryKey, documents, searchTasks>>

WaitFails(c) ==
  /\ searchCall[c].at = "waiting"
  /\ Gives(c, searchCall[c].op, searchCall[c].task, FALSE)
  /\ UNCHANGED <<primaryKey, documents, searchTasks>>

CreateGetsIndex(c, lost) ==
  LET call == searchCall[c]
  IN  /\ call.at = "getting"
      /\ Gives(c, call.op, call.task, primaryKey[call.op.uid] # NoIndex /\ ~lost)
      /\ UNCHANGED <<primaryKey, documents, searchTasks>>

-----------------------------------------------------------------------------
(* The server. *)

\* The first task that is not over is next.  An index that is there cannot be
\* created; any task may fail.
ServerRuns(next, fails) ==
  LET op  == searchTasks[next].op
      can == ~fails /\ (op.kind = "create" => primaryKey[op.uid] = NoIndex)
  IN  /\ ~Over(next) /\ \A earlier \in 1..(next - 1) : Over(earlier)
      /\ searchTasks' = [searchTasks EXCEPT ![next].status =
                           IF can THEN "succeeded" ELSE "failed"]
      /\ primaryKey' = IF can /\ op.kind = "create"
                       THEN [primaryKey EXCEPT ![op.uid] = op.key] ELSE primaryKey
      /\ documents' =
           IF ~can \/ op.kind = "create" THEN documents
           ELSE [documents EXCEPT ![op.uid] =
                   IF op.kind = "add" THEN @ \cup op.docs ELSE @ \ op.docs]
      /\ UNCHANGED searchCall

SearchNext ==
  \/ \E c \in SearchCalls :
       \/ \E op \in Changes, lost \in BOOLEAN : GetsIndex(c, op, lost)
       \/ \E op \in Creations \cup Changes, arrives, heard \in BOOLEAN :
            PostsTask(c, op, arrives, heard)
       \/ WaitEnds(c)
       \/ WaitFails(c)
       \/ \E lost \in BOOLEAN : CreateGetsIndex(c, lost)
  \/ \E next \in DOMAIN searchTasks, fails \in BOOLEAN : ServerRuns(next, fails)

SearchSpec == SearchInit /\ [][SearchNext]_searchVars

-----------------------------------------------------------------------------
(* search: the page asked of the server, and the page the answer says it is. *)

SearchedPage(config, page, size) ==
  LET page_size == IF size = 0 THEN config.default
                   ELSE IF size > config.max THEN config.max ELSE size
      actual    == IF page = 0 THEN 1 ELSE page
  IN  [page |-> actual, page_size |-> page_size, offset |-> Offset(actual, page_size)]

SearchPagination(config, page, size, hits) ==
  LET asked == SearchedPage(config, page, size)
  IN  NewPagination(asked.page, asked.page_size, hits)

\* The answer speaks of the page that was searched, for every configuration
\* whose sizes Pagination::new lets stand, and says that there is such a page
\* when there is, as long as the offset does not wrap.
SearchedPagesAgree ==
  \A config \in [default : 1..LargestPageSize, max : 1..LargestPageSize],
     page \in AuditPages, size \in AuditSizes, hits \in 0..MaxRows :
    LET asked == SearchedPage(config, page, size)
        said  == SearchPagination(config, page, size, hits)
    IN  /\ said.page = asked.page /\ said.page_size = asked.page_size
        /\ asked.offset < hits /\ (asked.page - 1) * asked.page_size < WordSize =>
             said.page <= said.total_pages
        /\ said.page <= said.total_pages => asked.offset < hits

-----------------------------------------------------------------------------
SearchTask ==
  [op : Creations \cup Changes, status : {"enqueued", "succeeded", "failed"}]
SearchCall ==
  [at : {"none"}]
  \cup [at : {"found"}, op : Changes]
  \cup [at : {"waiting", "getting"}, op : Creations \cup Changes, task : Nat]
  \cup [at : {"returned"}, op : Creations \cup Changes, task : Nat, ok : BOOLEAN]

SearchTypeOK ==
  /\ primaryKey \in [IndexIds -> PrimaryKeys \cup {NoIndex}]
  /\ documents \in [IndexIds -> SUBSET DocIds]
  /\ searchTasks \in Seq(SearchTask)
  /\ searchCall \in [SearchCalls -> SearchCall]

Succeeds(task) == searchTasks[task].status = "succeeded"
Undone(task, kind, doc) ==
  \E later \in (task + 1)..Len(searchTasks) :
    /\ Succeeds(later)
    /\ searchTasks[later].op.kind = kind
    /\ searchTasks[later].op.uid = searchTasks[task].op.uid
    /\ doc \in searchTasks[later].op.docs

\* A change that was answered with Ok can be seen by the next search, unless
\* its task failed, which the answer does not tell, or a later change undid it;
\* an index create_index gives out is there, with the key asked for if it is
\* this call that made it; documents are in indexes that were made first.
ChangesAreSeen ==
  /\ \A c \in SearchCalls : searchCall[c].at = "returned" /\ searchCall[c].ok =>
       LET op   == searchCall[c].op
           task == searchCall[c].task
       IN  /\ Over(task)
           /\ op.kind = "create" =>
                /\ primaryKey[op.uid] # NoIndex
                /\ Succeeds(task) => primaryKey[op.uid] = op.key
           /\ op.kind # "create" /\ Succeeds(task) => \A doc \in op.docs :
                IF op.kind = "add"
                  THEN ~Undone(task, "delete", doc) => doc \in documents[op.uid]
                  ELSE ~Undone(task, "add", doc) => doc \notin documents[op.uid]
  /\ \A i \in IndexIds : documents[i] # {} => primaryKey[i] # NoIndex

(***************************************************************************)
(* What the proof in ServiceProofs needs: the tasks that are over are a    *)
(* prefix, and primaryKey and documents are what they left.                *)
(***************************************************************************)
TasksInOrder ==
  \A task \in DOMAIN searchTasks, earlier \in DOMAIN searchTasks :
    earlier < task /\ Over(task) => Over(earlier)

Posted(op) == op.kind # "create" => primaryKey[op.uid] # NoIndex

\* What the documents of an index owe to the task, whatever came after it.
Stands(task) ==
  LET op == searchTasks[task].op
  IN  IF op.kind = "create" THEN primaryKey[op.uid] = op.key
      ELSE \A doc \in op.docs :
             IF op.kind = "add"
               THEN ~Undone(task, "delete", doc) => doc \in documents[op.uid]
               ELSE ~Undone(task, "add", doc) => doc \notin documents[op.uid]

TasksStand ==
  \A task \in DOMAIN searchTasks :
    Posted(searchTasks[task].op) /\ (Succeeds(task) => Stands(task))

\* A call knows the task it posted, and has waited for it.
KnowsItsTask(c) ==
  LET call == searchCall[c]
  IN  /\ call.at = "found" => Posted(call.op)
      /\ call.at \in {"waiting", "getting"} \/ (call.at = "returned" /\ call.ok) =>
           /\ call.task \in DOMAIN searchTasks /\ searchTasks[call.task].op = call.op
           /\ call.at # "waiting" => Over(call.task)
      /\ call.at = "returned" /\ call.ok /\ call.op.kind = "create" =>
           primaryKey[call.op.uid] # NoIndex

SearchInv ==
  /\ SearchTypeOK
  /\ TasksInOrder
  /\ TasksStand
  /\ \A c \in SearchCalls : KnowsItsTask(c)
  /\ \A i \in IndexIds : documents[i] # {} => primaryKey[i] # NoIndex
=============================================================================
