--------------------------- MODULE CatalogImport ---------------------------
(***************************************************************************)
(* Imports of a workbook into the master catalogue: the catalogue-only run *)
(* of ImportOrchestratorService.runFullImport, the slugs SlugAssigner gives*)
(* the rows, the outcome recorded for each of them, and the outcome        *)
(* CatalogReconciliationService.planImport says it will have.              *)
(*                                                                         *)
(* The rows of a batch are imported at the same time: each reads the item  *)
(* that has its slug, and writes under the slug later.                     *)
(*                                                                         *)
(* Abstracted: a parent is the slug of a subcategory within its category,  *)
(* after DD-01 has redirected it, and to import it is to import both; a    *)
(* name stands for every spelling of it that differs in case; TRANSFORMED  *)
(* is IMPORTED.  Units and the masters come after the items and add to the *)
(* errors only.                                                            *)
(***************************************************************************)
EXTENDS Naturals, Sequences, FiniteSets, FiniteSetsExt

CONSTANTS
    BaseSlug,       \* slugifyDeterministic: from names to sequences of words,
                    \* each word a number
    Books,          \* workbooks: sequences of rows in the order of their S.No
    BatchSize,      \* rows imported at the same time
    Imports,        \* imports that may be started
    MaxOverlapRows, \* bound: rows imported altogether when imports overlap
    MaxFaults       \* bound: calls of the database that fail, and crashes

ASSUME BatchSizeAssumption == BatchSize \in Nat \ {0}
ASSUME BaseSlugAssumption ==
    \A name \in DOMAIN BaseSlug : BaseSlug[name] \in Seq(Nat)
ASSUME BooksAssumption ==
    \A book \in Books : book \in Seq([name: DOMAIN BaseSlug, parent: STRING,
                                      kind: {"plain", "preserved"}])

VARIABLES
    items,          \* CatalogItem rows: the slug is unique
    parents,        \* CatalogSubcategory rows
    job,            \* ImportJob, and how far the import has come
    row,            \* how far each row of the workbook has come, and its outcome
    start,          \* history: the catalogue as each import found it
    overlapped,     \* history: two imports ran at the same time
    faults          \* what has failed so far

catalogVars == <<items, parents, job, row, start, overlapped, faults>>

-----------------------------------------------------------------------------
\* SlugAssigner.assign, of the rows in their order
SlugOf(book, r) ==
    LET base == BaseSlug[book[r].name]
        seen == {q \in 1..r - 1 : BaseSlug[book[q].name] = base}
    IN  IF seen = {} THEN base ELSE Append(base, Cardinality(seen) + 1)

\* A blank category or subcategory is never imported, nor found.
Blank == "blank"

Batch(r) == (r - 1) \div BatchSize
Running(i) == job[i].at \in {"parents", "items", "end"}
InBatch(i) == {r \in DOMAIN job[i].book : Batch(r) = job[i].batch}

Recorded == {"IMPORTED", "MAPPED_TO_EXISTING", "FOUNDER_REVIEW"}
\* A row that failed, or whose outcome could not be written, has no record.
Settled == Recorded \cup {"unrecorded", "failed"}

CatalogInit ==
    /\ items = {}
    /\ parents = {}
    /\ job = [i \in Imports |-> [at |-> "new", status |-> "NONE", book |-> <<>>,
                                 batch |-> 0, errors |-> FALSE, created |-> FALSE]]
    /\ row = [i \in Imports |-> <<>>]
    /\ start = [i \in Imports |-> [items |-> {}, parents |-> {}]]
    /\ overlapped = FALSE
    /\ faults = 0

Fail(n) == faults + n <= MaxFaults /\ faults' = faults + n

-----------------------------------------------------------------------------
BeginImport(i, book) ==
    /\ job[i].at = "new"
    /\ \/ ~overlapped /\ \A k \in Imports : ~Running(k)
       \/ MapThenSumSet(LAMBDA k : Len(job[k].book), Imports) + Len(book) <= MaxOverlapRows
    /\ job' = [job EXCEPT ![i].at = "parents", ![i].status = "RUNNING",
                          ![i].book = book]
    /\ row' = [row EXCEPT ![i] = [r \in DOMAIN book |-> "waiting"]]
    /\ start' = [start EXCEPT ![i] = [items |-> items, parents |-> parents]]
    /\ overlapped' = (overlapped \/ \E k \in Imports : Running(k))
    /\ UNCHANGED <<items, parents, faults>>

\* importCatalogCategories and importCatalogSubcategories: upserts, any of which
\* may fail by itself.
ImportParents(i) ==
    /\ job[i].at = "parents"
    /\ LET asked == {job[i].book[r].parent : r \in DOMAIN job[i].book} \ {Blank}
       IN  \E done \in SUBSET asked :
             /\ parents' = parents \cup done
             /\ job' = [job EXCEPT ![i].at = "items", ![i].errors = done # asked]
             /\ Fail(Cardinality(asked \ done))
    /\ UNCHANGED <<items, row, start, overlapped>>

\* Mutant: an item of the same name is the same, wherever it is.
Known_NameOnly(item, book, r) == item.name = book[r].name

Known(item, book, r) == item.name = book[r].name /\ item.parent = book[r].parent

\* Mutant: a slug match is a match.
Seen_SlugIsEnough(i, r) ==
    LET book == job[i].book
        found == {item \in items : item.slug = SlugOf(book, r)}
    IN  IF book[r].parent \notin parents THEN "orphan"
        ELSE IF found = {} THEN "fresh" ELSE "known"

\* What a row finds out before it writes.
Seen(i, r) ==
    LET book == job[i].book
        found == {item \in items : item.slug = SlugOf(book, r)}
    IN  IF book[r].parent \notin parents THEN "orphan"
        ELSE CASE found = {} -> "fresh"
               [] \E item \in found : Known(item, book, r) -> "known"
               [] OTHER -> "collides"

\* Mutant: a row without its parent is reviewed, and no error.
ReadRow_OrphanIsNoError(i, r) ==
    /\ job[i].at = "items"
    /\ r \in InBatch(i)
    /\ row[i][r] = "waiting"
    /\ row' = [row EXCEPT ![i][r] = Seen(i, r)]
    /\ UNCHANGED <<items, parents, job, start, overlapped, faults>>

ReadRow(i, r) ==
    /\ job[i].at = "items"
    /\ r \in InBatch(i)
    /\ row[i][r] = "waiting"
    /\ row' = [row EXCEPT ![i][r] = Seen(i, r)]
    /\ job' = [job EXCEPT ![i].errors = @ \/ Seen(i, r) = "orphan"]
    /\ UNCHANGED <<items, parents, start, overlapped, faults>>

\* The upsert by slug: what it finds keeps its parent and takes the row's name.
Upserted(book, r) ==
    LET found == {item \in items : item.slug = SlugOf(book, r)}
    IN  IF found = {}
          THEN items \cup {[slug |-> SlugOf(book, r), name |-> book[r].name,
                            parent |-> book[r].parent]}
          ELSE (items \ found) \cup {[item EXCEPT !.name = book[r].name] : item \in found}

WriteRow(i, r) ==
    /\ job[i].at = "items"
    /\ r \in DOMAIN row[i]
    /\ row[i][r] \in {"fresh", "known"}
    /\ items' = Upserted(job[i].book, r)
    /\ row' = [row EXCEPT ![i][r] = IF @ = "fresh" THEN "created" ELSE "mapped"]
    /\ UNCHANGED <<parents, job, start, overlapped, faults>>

Outcome(progress, kind) ==
    CASE progress \in {"orphan", "collides"} -> "FOUNDER_REVIEW"
      [] progress = "mapped" -> "MAPPED_TO_EXISTING"
      [] OTHER -> IF kind = "preserved" THEN "FOUNDER_REVIEW" ELSE "IMPORTED"

\* recordRowOutcome: an outcome that cannot be written is logged and forgotten.
\* Whatever it was, a row that got here counts as created, unless an orphan.
RecordRow(i, r) ==
    /\ job[i].at = "items"
    /\ r \in DOMAIN row[i]
    /\ row[i][r] \in {"orphan", "collides", "created", "mapped"}
    /\ \/ /\ row' = [row EXCEPT ![i][r] = Outcome(@, job[i].book[r].kind)]
          /\ UNCHANGED faults
       \/ row' = [row EXCEPT ![i][r] = "unrecorded"] /\ Fail(1)
    /\ job' = [job EXCEPT ![i].created = @ \/ row[i][r] # "orphan"]
    /\ UNCHANGED <<items, parents, start, overlapped>>

\* A read or the upsert throws, or the read of what was upserted.
FailRow(i, r) ==
    /\ job[i].at = "items"
    /\ r \in InBatch(i)
    /\ row[i][r] \in {"waiting", "fresh", "known", "created", "mapped"}
    /\ row' = [row EXCEPT ![i][r] = "failed"]
    /\ Fail(1)
    /\ job' = [job EXCEPT ![i].errors = TRUE]
    /\ UNCHANGED <<items, parents, start, overlapped>>

\* Promise.all has every row of the batch.
NextBatch(i) ==
    /\ job[i].at = "items"
    /\ \A r \in InBatch(i) : row[i][r] \in Settled
    /\ IF \E r \in DOMAIN job[i].book : Batch(r) > job[i].batch
         THEN job' = [job EXCEPT ![i].batch = @ + 1] /\ UNCHANGED faults
         ELSE \E failed \in {0, 1} :   \* units, masters
                /\ job' = [job EXCEPT ![i].at = "end", ![i].errors = @ \/ failed = 1]
                /\ Fail(failed)
    /\ UNCHANGED <<items, parents, row, start, overlapped>>

\* buildReconciliation and the job's status, or the catch around all of it.
End(i) ==
    /\ job[i].at = "end"
    /\ \/ /\ job' = [job EXCEPT ![i].at = "ended", ![i].status =
                          IF ~job[i].errors THEN "COMPLETED"
                          ELSE IF job[i].created THEN "PARTIAL" ELSE "FAILED"]
          /\ UNCHANGED faults
       \/ /\ job' = [job EXCEPT ![i].at = "ended", ![i].status = "FAILED"]
          /\ Fail(1)
    /\ UNCHANGED <<items, parents, row, start, overlapped>>

\* The process dies: the job stays RUNNING, and nothing takes it up again.
\* resumeImport takes rows in ERROR of a job FAILED or PARTIAL, and writes none.
Die(i) ==
    /\ Running(i)
    /\ job' = [job EXCEPT ![i].at = "dead"]
    /\ Fail(1)
    /\ UNCHANGED <<items, parents, row, start, overlapped>>

CatalogNext == \E i \in Imports :
    \/ \E book \in Books : BeginImport(i, book)
    \/ ImportParents(i)
    \/ \E r \in DOMAIN row[i] : ReadRow(i, r) \/ WriteRow(i, r)
                                \/ RecordRow(i, r) \/ FailRow(i, r)
    \/ NextBatch(i) \/ End(i) \/ Die(i)

CatalogSpec == CatalogInit /\ [][CatalogNext]_catalogVars

-----------------------------------------------------------------------------
\* planRow: the outcome a row is said to have, of the catalogue before the import.
Planned(was, book, r) ==
    LET found == {item \in was.items : item.slug = SlugOf(book, r)}
        match == \E item \in found :
                   /\ item.name = book[r].name
                   /\ book[r].parent \in was.parents => item.parent = book[r].parent
    IN  IF book[r].parent = Blank \/ book[r].kind = "preserved" THEN "FOUNDER_REVIEW"
        ELSE CASE found = {} -> "IMPORTED"
               [] match -> "MAPPED_TO_EXISTING"
               [] OTHER -> "FOUNDER_REVIEW"

\* The rows that have written an item and say so.
Claims(i) ==
    {r \in DOMAIN row[i] : row[i][r] \in {"IMPORTED", "MAPPED_TO_EXISTING"}}

(* Imports one after the other: a slug that names another record is never     *)
(* merged with it, if that record was there before the batch.  An import      *)
(* leaves every item it found as it was, and two rows of a workbook that are  *)
(* said to be imported, or to be there already, are two items, unless they    *)
(* were imported in the same batch.                                           *)
NeverMergedAcrossBatches ==
    ~overlapped => \A i \in Imports :
        /\ start[i].items \subseteq items
        /\ \A r, q \in Claims(i) :
             SlugOf(job[i].book, r) = SlugOf(job[i].book, q) /\ r # q
               => Batch(r) = Batch(q)

(* However imports overlap and fail: when a job is COMPLETED there is an item *)
(* under the slug of every row of its workbook.                               *)
CompletedMeansPresent ==
    \A i \in Imports : job[i].status = "COMPLETED" =>
        \A r \in DOMAIN job[i].book :
            \E item \in items : item.slug = SlugOf(job[i].book, r)

(* Imports one after the other: once a workbook was imported with no error, to *)
(* import it again changes nothing, even if others were imported in between.   *)
RerunChangesNothing ==
    [][~overlapped => \A i, k \in Imports :
         job[i].status = "COMPLETED" /\ Running(k) /\ job[k].book = job[i].book
           => items' = items /\ parents' = parents]_catalogVars

PlainRow(i, r) ==
    LET book == job[i].book
    IN  /\ book[r].kind = "plain"
        /\ book[r].parent \in start[i].parents
        /\ \A q \in DOMAIN book : q # r => SlugOf(book, q) # SlugOf(book, r)

(* Imports one after the other: a row that is neither preserved nor shares its *)
(* slug with another, and whose parent was there before, has the outcome that  *)
(* was planned for it.                                                         *)
PlainRowsGoAsPlanned ==
    ~overlapped => \A i \in Imports : \A r \in DOMAIN row[i] :
        row[i][r] \in Recorded /\ PlainRow(i, r)
          => row[i][r] = Planned(start[i], job[i].book, r)
=============================================================================
