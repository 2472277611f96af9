--------------------------- MODULE AsyncValidation ---------------------------
(***************************************************************************)
(* SHACL validation of inserted triples: at once (shacl_mode = 'sync') or  *)
(* by a queue (shacl_mode = 'async') that the background worker and any    *)
(* session that calls process_validation_queue work off                    *)
(* (src/src/shacl/validator/, src/src/dict_api.rs, src/src/data_ops.rs).   *)
(*                                                                         *)
(* One shape is loaded, with sh:maxCount and with a constraint on the      *)
(* value alone (sh:datatype, sh:in, sh:pattern): the values of Wrong fail  *)
(* it.  A triple is a focus node and a value.                              *)
(***************************************************************************)
EXTENDS Naturals, FiniteSets

CONSTANTS
    Focus, Objects,  \* focus nodes and values of the path
    Wrong,           \* values that the value constraint refuses
    MaxCount,        \* sh:maxCount
    Processors,      \* the worker, and sessions
    MaxInserts       \* bound on triples inserted

ASSUME ValidationAssumption ==
    /\ Wrong \subseteq Objects /\ MaxCount \in Nat \ {0} /\ MaxInserts \in Nat

Facts == Focus \X Objects

VARIABLES
    facts,     \* committed triples
    sid,       \* statement identifiers handed out
    vqueue,    \* validation_queue: [id, fact]
    letters,   \* dead_letter_queue: the rows, in whichever number of copies
    chosen,    \* per processor, the rows it has selected
    drafted,   \* per processor, rows judged, and not yet committed
    working,   \* per processor, is it in its transaction?
    checking,  \* per processor, a fact that passed the check before its insert
    wrongly    \* history: focus nodes that sync checks of two sessions let through,
               \* or whose rows a crash took

vvars == <<facts, sid, vqueue, letters, chosen, drafted, working, checking, wrongly>>

NoFact == <<>>

VInit ==
    /\ facts = {} /\ sid = 0 /\ vqueue = {} /\ letters = {}
    /\ chosen = [p \in Processors |-> {}] /\ drafted = [p \in Processors |-> {}]
    /\ working = [p \in Processors |-> FALSE]
    /\ checking = [p \in Processors |-> NoFact]
    /\ wrongly = {}

CountValues(f) == Cardinality({x \in facts : x[1] = f})

(* validate_sync_with_shapes: the count is of the values that are there,    *)
(* and one is added for the triple in question.                             *)
Validates(x) == CountValues(x[1]) + 1 <= MaxCount /\ x[2] \notin Wrong

(* insert_triple in async mode: the triple and its queue row are one        *)
(* transaction.                                                             *)
InsertAsync(x) ==
    /\ x \notin facts /\ sid < MaxInserts
    /\ facts' = facts \cup {x} /\ sid' = sid + 1
    /\ vqueue' = vqueue \cup {[id |-> sid + 1, fact |-> x]}
    /\ UNCHANGED <<letters, chosen, drafted, working, checking, wrongly>>

(* insert_triple in sync mode: the check, *)
CheckSync(p, x) ==
    /\ ~working[p] /\ checking[p] = NoFact
    /\ x \notin facts /\ sid < MaxInserts
    /\ Validates(x)
    /\ checking' = [checking EXCEPT ![p] = x]
    /\ UNCHANGED <<facts, sid, vqueue, letters, chosen, drafted, working, wrongly>>

(* and the insertion. *)
InsertSync(p) ==
    /\ checking[p] # NoFact /\ sid < MaxInserts
    /\ facts' = facts \cup {checking[p]} /\ sid' = sid + 1
    /\ checking' = [checking EXCEPT ![p] = NoFact]
    /\ wrongly' = IF Validates(checking[p]) THEN wrongly ELSE wrongly \cup {checking[p][1]}
    /\ UNCHANGED <<vqueue, letters, chosen, drafted, working>>

DeleteFact(x) ==
    /\ x \in facts
    /\ facts' = facts \ {x}
    /\ UNCHANGED <<sid, vqueue, letters, chosen, drafted, working, checking, wrongly>>

-----------------------------------------------------------------------------
(* process_validation_batch: rows are selected without locks, *)
Select(p) ==
    /\ ~working[p] /\ checking[p] = NoFact /\ vqueue # {}
    /\ working' = [working EXCEPT ![p] = TRUE]
    /\ chosen' = [chosen EXCEPT ![p] = vqueue]
    /\ UNCHANGED <<facts, sid, vqueue, letters, drafted, checking, wrongly>>

(* each is validated against what is there by now, *)
Judge(p, r) ==
    /\ working[p] /\ r \in chosen[p]
    /\ \A q \in chosen[p] : r.id <= q.id
    /\ chosen' = [chosen EXCEPT ![p] = @ \ {r}]
    /\ drafted' = [drafted EXCEPT ![p] =
                     @ \cup {[row |-> r, letter |-> ~Validates(r.fact)]}]
    /\ UNCHANGED <<facts, sid, vqueue, letters, working, checking, wrongly>>

(* Mutant: the queue is emptied. *)
DequeueAll(p) == vqueue

(* Mutant: rows that got a letter stay in the queue. *)
DequeueConforming(p) == {d.row : d \in {x \in drafted[p] : ~x.letter}}

(* DELETE ... WHERE id = ANY(ids): the rows that were selected. *)
Dequeued(p) == {d.row : d \in drafted[p]}

(* Mutant: letters outlive the transaction they were written in. *)
KeepDrafts(p) ==
    working' = [working EXCEPT ![p] = FALSE] /\ chosen' = [chosen EXCEPT ![p] = {}] /\ UNCHANGED drafted

(* The transaction is over, and what it had not committed is gone. *)
Done(p) ==
    /\ working' = [working EXCEPT ![p] = FALSE]
    /\ chosen' = [chosen EXCEPT ![p] = {}] /\ drafted' = [drafted EXCEPT ![p] = {}]

(* and they are deleted at the end.  stmt_id of a letter is the id of the   *)
(* queue row.                                                               *)
Finish(p) ==
    /\ working[p] /\ chosen[p] = {}
    /\ vqueue' = vqueue \ Dequeued(p)
    /\ letters' = letters \cup {d.row : d \in {x \in drafted[p] : x.letter}}
    /\ Done(p)
    /\ UNCHANGED <<facts, sid, checking, wrongly>>

(* The transaction is rolled back. *)
GiveUp(p) ==
    /\ working[p]
    /\ Done(p)
    /\ UNCHANGED <<facts, sid, vqueue, letters, checking, wrongly>>

(* The server crashes: what was not committed is gone, and so is the queue, *)
(* an unlogged table.                                                       *)
VCrash ==
    /\ vqueue' = {}
    /\ wrongly' = wrongly \cup {r.fact[1] : r \in vqueue}
    /\ chosen' = [p \in Processors |-> {}] /\ drafted' = [p \in Processors |-> {}]
    /\ working' = [p \in Processors |-> FALSE]
    /\ checking' = [p \in Processors |-> NoFact]
    /\ UNCHANGED <<facts, sid, letters>>
-----------------------------------------------------------------------------
(* Types; nothing is drafted outside a transaction. *)
VTypeOK ==
    /\ facts \subseteq Facts /\ sid \in 0 .. MaxInserts /\ wrongly \subseteq Focus
    /\ vqueue \subseteq [id : 1 .. MaxInserts, fact : Facts]
    /\ \A p \in Processors :
           /\ chosen[p] \cap {d.row : d \in drafted[p]} = {}
           /\ checking[p] \in Facts \cup {NoFact}
           /\ ~working[p] => chosen[p] = {} /\ drafted[p] = {}

(* No violation is forgotten: a focus node with too many values has a row   *)
(* in the queue or a letter, whichever sessions inserted them, in whichever *)
(* mode, and however the queue was worked off (process_validation_batch,    *)
(* validate_sync).  Two sync checks that did not see each other, and a      *)
(* crash that empties the queue, are the exceptions.                        *)
NoViolationForgotten ==
    \A f \in Focus \ wrongly :
        CountValues(f) > MaxCount =>
            \/ \E r \in vqueue : r.fact[1] = f
            \/ \E l \in letters : l.fact[1] = f

(* What the shape says of a triple that is there. *)
Violates(x) == x \in facts /\ (CountValues(x[1]) > MaxCount \/ x[2] \in Wrong)

(* A triple that is there gets a letter only if it violates the shape: "a   *)
(* background worker validates and routes violations to the dead-letter     *)
(* queue" (docs/src/features/validating-data-quality.md).                   *)
LettersDue ==
    [][\A p \in Processors : \A d \in drafted'[p] \ drafted[p] :
          d.letter /\ d.row.fact \in facts => Violates(d.row.fact)]_vvars
=============================================================================
