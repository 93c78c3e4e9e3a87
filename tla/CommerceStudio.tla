----------------------------- MODULE CommerceStudio -----------------------------
(***************************************************************************)
(* A commerce project on its way to a batch: the SKUs of its product, the  *)
(* creative specification written by hand or by an analysis of its         *)
(* pictures, the quotation, and the submission that spends it.  SKUs and   *)
(* projects are changed under a mutex of the process, under row locks, or  *)
(* under neither; a submission holds the row of its project.               *)
(***************************************************************************)
EXTENDS Naturals, FiniteSets

CONSTANTS
    Products,       \* positive numbers
    Skus,           \* positive numbers
    ProductOf,      \* the product of a SKU
    Pictures,       \* commerce_assets of the project
    SkuOf,          \* the SKU a picture belongs to; 0: all
    Requests,       \* [spec, skus, pictures] to make a batch of
    SubmitKeys,     \* idempotency keys of submissions
    MaxEditors,     \* bound: requests that change the project, numbered as they begin
    MaxSpecs,       \* bound: creative specifications
    MaxQuotes,      \* bound: quotations
    MaxAnalysis,    \* max_attempts of an analysis
    MaxChanges      \* bound: changes to SKUs, pictures, prices and the project

ASSUME StudioAssumption ==
    /\ Skus \subseteq Nat \ {0} /\ Products \subseteq Nat \ {0} /\ ProductOf \in [Skus -> Products]
    /\ Requests \subseteq [spec : 1..MaxSpecs, skus : SUBSET Skus, pictures : SUBSET Pictures]
    /\ {MaxEditors, MaxSpecs, MaxQuotes, MaxAnalysis, MaxChanges} \subseteq Nat

VARIABLES
    sku,        \* the status of the SKUs
    version,    \* sku_version of the products
    project,
    spec,       \* creative specifications
    job,        \* the jobs that analyze for them
    attempt,    \* the handlers of these jobs, by their attempt
    picture,    \* whether a picture is there
    quote,      \* commerce_pricing_snapshots
    batch,      \* batches by their key
    price,      \* what an item costs now
    desk,       \* changes of the project that are under way
    confirm,    \* the confirmation that is under way
    submit,     \* the submission that is under way
    crossed,    \* history: the product and the default SKU were changed by overlapping requests
    slipped,    \* history: analyses whose failure was not written down
    changes

commerceStudio == <<sku, version, project, spec, job, attempt, picture, quote, batch, price,
                    desk, confirm, submit, crossed, slipped, changes>>

NoProject == [st |-> "none", product |-> 0, def |-> 0, spec |-> 0]
NoSpec    == [st |-> "none", source |-> "manual", version |-> 0, complete |-> FALSE, context |-> <<>>]
NoJob     == [st |-> "none", tries |-> 0, cancel |-> FALSE]
NoQuote   == [st |-> "none", request |-> <<>>, price |-> 0, total |-> 0]
NoBatch   == [st |-> "none", request |-> <<>>, quote |-> 0, total |-> 0]
NoPatch   == [at |-> "idle", product |-> 0, moves |-> FALSE, def |-> 0]
NoConfirm == [spec |-> 0, version |-> 0, context |-> <<>>]
NoSubmit  == [key |-> "none", quote |-> 0]

Editors  == 1..MaxEditors
Specs    == 1..MaxSpecs
Attempts == 1..MaxAnalysis

StudioInit ==
    /\ sku = [s \in Skus |-> "none"]
    /\ version = [p \in Products |-> 0]
    /\ project = NoProject
    /\ spec = [x \in Specs |-> NoSpec]
    /\ job = [x \in Specs |-> NoJob]
    /\ attempt = [x \in Specs |-> [a \in Attempts |-> "none"]]
    /\ picture = [a \in Pictures |-> FALSE]
    /\ quote = [q \in 1..MaxQuotes |-> NoQuote]
    /\ batch = [k \in SubmitKeys |-> NoBatch]
    /\ price = 1
    /\ desk = [d \in Editors |-> NoPatch]
    /\ confirm = NoConfirm
    /\ submit = NoSubmit
    /\ crossed = FALSE
    /\ slipped = {}
    /\ changes = 0

SkusOf(p)  == {s \in Skus : ProductOf[s] = p}
Active(s)  == sku[s] = "active"
There      == project.st \in {"active", "blocked", "leaving"}
Writable   == project.st = "active"

(* skuMutationMu, and the row of the project.                              *)
MutexFree      == \A d \in Editors : desk[d].def = 0
ProjectFree    == submit = NoSubmit
MayLock(p)     == There /\ project.product = p => ProjectFree

(* What a confirmed specification was confirmed for.                       *)
Context == <<version[project.product], project.def,
             [s \in SkusOf(project.product) |-> sku[s]],
             {a \in Pictures : picture[a] /\ SkuOf[a] # 0}>>

Counted == changes < MaxChanges /\ changes' = changes + 1
-----------------------------------------------------------------------------
(* SKUs.  Every change moves the version of the product.                   *)

Moved(p) == version' = [version EXCEPT ![p] = @ + 1]

CreateSKU(s, st) ==
    /\ Counted /\ sku[s] = "none"
    /\ sku' = [sku EXCEPT ![s] = st] /\ Moved(ProductOf[s])
    /\ UNCHANGED <<project, spec, job, attempt, picture, quote, batch, price, desk, confirm,
                   submit, crossed, slipped>>

(* A mutant: the projects are not looked at.                               *)
SparesDefaultsBlind(s) == TRUE

SparesDefaults(s) == ~(There /\ project.product = ProductOf[s] /\ project.def = s)

(* The default SKU of a project is not disabled.                           *)
PatchSKU(s, st) ==
    /\ Counted /\ sku[s] # "none" /\ MutexFree /\ MayLock(ProductOf[s])
    /\ st = "disabled" => SparesDefaults(s)
    /\ sku' = [sku EXCEPT ![s] = st] /\ Moved(ProductOf[s])
    /\ UNCHANGED <<project, spec, job, attempt, picture, quote, batch, price, desk, confirm,
                   submit, crossed, slipped>>

(* The combinations the user wants: some active SKUs go, new ones come,    *)
(* and projects whose default goes move to the first of the others; there  *)
(* is one, since without dimensions one combination is wanted.             *)
ApplySKUMatrix(p) ==
    /\ Counted /\ MutexFree /\ MayLock(p) /\ Moved(p)
    /\ \E drop \in SUBSET {s \in SkusOf(p) : Active(s)}, add \in SUBSET {s \in SkusOf(p) : sku[s] = "none"} :
          /\ sku' = [s \in Skus |-> IF s \in drop THEN "disabled" ELSE IF s \in add THEN "active" ELSE sku[s]]
          /\ \E first \in add \cup {s \in SkusOf(p) \ drop : Active(s)} :
                project' = IF There /\ project.product = p /\ project.def \in drop
                           THEN [project EXCEPT !.def = first] ELSE project
    /\ UNCHANGED <<spec, job, attempt, picture, quote, batch, price, desk, confirm, submit,
                   crossed, slipped>>
-----------------------------------------------------------------------------
(* The project.                                                            *)

Bootstrap(s) ==
    /\ project.st = "none" /\ sku[s] = "none" /\ \A t \in SkusOf(ProductOf[s]) : sku[t] = "none"
    /\ sku' = [sku EXCEPT ![s] = "active"]
    /\ project' = [NoProject EXCEPT !.st = "active", !.product = ProductOf[s], !.def = s]
    /\ UNCHANGED <<version, spec, job, attempt, picture, quote, batch, price, desk, confirm,
                   submit, crossed, slipped, changes>>

CreateProject ==
    /\ project.st = "none" /\ MutexFree
    /\ \E p \in Products : \E def \in {s \in SkusOf(p) : Active(s)} \cup {0} :
          project' = [NoProject EXCEPT !.st = "active", !.product = p, !.def = def]
    /\ UNCHANGED <<sku, version, spec, job, attempt, picture, quote, batch, price, desk, confirm,
                   submit, crossed, slipped, changes>>

(* A change to the project is checked against the row as it was read, and  *)
(* written when the row is free.  Only one that sets the default SKU takes *)
(* the mutex.  moves: the change names a product.                          *)
LoadPatch(d) ==
    /\ desk[d] = NoPatch /\ \A e \in 1..(d - 1) : desk[e] # NoPatch
    /\ Writable
    /\ \E product \in Products \cup {0}, def \in Skus \cup {0} :
          LET p == IF product # 0 THEN product ELSE project.product
              s == IF def # 0 THEN def ELSE project.def IN
          /\ product # 0 \/ def # 0
          /\ def # 0 => MutexFree
          /\ s # 0 => Active(s) /\ ProductOf[s] = p
          /\ desk' = [desk EXCEPT ![d] = [at |-> "loaded", product |-> p, moves |-> product # 0, def |-> def]]
    /\ UNCHANGED <<sku, version, project, spec, job, attempt, picture, quote, batch, price,
                   confirm, submit, crossed, slipped, changes>>

Patched(d) == [project EXCEPT
                  !.product = IF desk[d].moves THEN desk[d].product ELSE @,
                  !.def = IF desk[d].def # 0 THEN desk[d].def ELSE @]

SavePatch(d) ==
    /\ desk[d].at = "loaded" /\ (ProjectFree \/ ~There)
    /\ desk' = [desk EXCEPT ![d] = [NoPatch EXCEPT !.at = "done"]]
    /\ IF project.st = "active" /\ (desk[d].def # 0 => Active(desk[d].def))
       THEN /\ project' = Patched(d)
            /\ crossed' = (crossed \/ LET after == Patched(d) IN
                              after.def # 0 /\ ProductOf[after.def] # after.product)
       ELSE UNCHANGED <<project, crossed>>
    /\ UNCHANGED <<sku, version, spec, job, attempt, picture, quote, batch, price, confirm,
                   submit, slipped, changes>>

(* A change that clears the default, or sets the status a deletion would.  *)
ClearDefault ==
    /\ Counted /\ Writable /\ ProjectFree
    /\ project' = [project EXCEPT !.def = 0]
    /\ UNCHANGED <<sku, version, spec, job, attempt, picture, quote, batch, price, desk, confirm,
                   submit, crossed, slipped>>

BlockProject ==
    /\ Writable /\ ProjectFree
    /\ project' = [project EXCEPT !.st = "blocked"]
    /\ UNCHANGED <<sku, version, spec, job, attempt, picture, quote, batch, price, desk, confirm,
                   submit, crossed, slipped, changes>>

Pending(x) == job[x].st \in {"queued", "retrying"}

RequestDeletion ==
    /\ project.st \in {"active", "blocked"} /\ ProjectFree
    /\ project' = [project EXCEPT !.st = "leaving"]
    /\ job' = [x \in Specs |-> IF Pending(x) THEN [job[x] EXCEPT !.st = "canceled"]
                               ELSE IF job[x].st = "running" THEN [job[x] EXCEPT !.cancel = TRUE]
                               ELSE job[x]]
    /\ UNCHANGED <<sku, version, spec, attempt, picture, quote, batch, price, desk, confirm,
                   submit, crossed, slipped, changes>>

FinalizeDeletion ==
    /\ project.st = "leaving" /\ ProjectFree
    /\ \A x \in Specs : ~Pending(x) /\ job[x].st # "running"
    /\ project' = [project EXCEPT !.st = "gone"]
    /\ picture' = [a \in Pictures |-> FALSE]
    /\ UNCHANGED <<sku, version, spec, job, attempt, quote, batch, price, desk, confirm, submit,
                   crossed, slipped, changes>>

ChangePicture(a) ==
    /\ Counted /\ There
    /\ picture' = [picture EXCEPT ![a] = ~@]
    /\ UNCHANGED <<sku, version, project, spec, job, attempt, quote, batch, price, desk, confirm,
                   submit, crossed, slipped>>
-----------------------------------------------------------------------------
(* Creative specifications.                                                *)

NewSpec(x) == spec[x].st = "none" /\ \A y \in 1..(x - 1) : spec[y].st # "none"

CreateManual(x, complete) ==
    /\ NewSpec(x) /\ Writable
    /\ spec' = [spec EXCEPT ![x] = [NoSpec EXCEPT !.st = "draft", !.version = 1, !.complete = complete]]
    /\ UNCHANGED <<sku, version, project, job, attempt, picture, quote, batch, price, desk,
                   confirm, submit, crossed, slipped, changes>>

(* A change makes a new version, a draft; the project lets go of it.       *)
PatchSpec(x) ==
    /\ Counted /\ spec[x].st # "none" /\ Writable
    /\ project.spec = x => ProjectFree
    /\ spec' = [spec EXCEPT ![x].version = @ + 1, ![x].st = "draft", ![x].complete = TRUE]
    /\ project' = [project EXCEPT !.spec = IF @ = x THEN 0 ELSE @]
    /\ UNCHANGED <<sku, version, job, attempt, picture, quote, batch, price, desk, confirm,
                   submit, crossed, slipped>>

LoadConfirm(x) ==
    /\ confirm = NoConfirm /\ Writable /\ spec[x].complete
    /\ confirm' = [spec |-> x, version |-> spec[x].version, context |-> Context]
    /\ UNCHANGED <<sku, version, project, spec, job, attempt, picture, quote, batch, price, desk,
                   submit, crossed, slipped, changes>>

SaveConfirm ==
    LET x == confirm.spec IN
    /\ confirm # NoConfirm /\ ProjectFree /\ confirm' = NoConfirm
    /\ IF spec[x].version = confirm.version /\ Writable
       THEN /\ spec' = [spec EXCEPT ![x].st = "confirmed", ![x].context = confirm.context]
            /\ project' = [project EXCEPT !.spec = x]
       ELSE UNCHANGED <<spec, project>>
    /\ UNCHANGED <<sku, version, job, attempt, picture, quote, batch, price, desk, submit,
                   crossed, slipped, changes>>
-----------------------------------------------------------------------------
(* Analyses.                                                               *)

AnalyzeProduct(x) ==
    /\ NewSpec(x) /\ Writable /\ ProjectFree /\ \E a \in Pictures : picture[a]
    /\ spec' = [spec EXCEPT ![x] = [NoSpec EXCEPT !.st = "analyzing", !.source = "vision", !.version = 1]]
    /\ job' = [job EXCEPT ![x].st = "queued"]
    /\ UNCHANGED <<sku, version, project, attempt, picture, quote, batch, price, desk, confirm,
                   submit, crossed, slipped, changes>>

Analyzing(x) == spec[x].st = "analyzing" /\ spec[x].version = 1
Failed(x)    == [spec EXCEPT ![x].st = IF Analyzing(x) THEN "analysis_failed" ELSE @]

ClaimAnalysis(x) ==
    /\ Pending(x) /\ job[x].tries < MaxAnalysis
    /\ job' = [job EXCEPT ![x].st = "running", ![x].tries = @ + 1]
    /\ attempt' = [attempt EXCEPT ![x][job[x].tries + 1] = "claimed"]
    /\ UNCHANGED <<sku, version, project, spec, picture, quote, batch, price, desk, confirm,
                   submit, crossed, slipped, changes>>

(* The handler reads its specification, and asks for an analysis.          *)
LoadAnalysis(x, a) ==
    /\ attempt[x][a] = "claimed"
    /\ \/ /\ Analyzing(x) /\ \E b \in Pictures : picture[b]
          /\ attempt' = [attempt EXCEPT ![x][a] = "asked"] /\ UNCHANGED <<spec, slipped>>
       \/ /\ ~Analyzing(x)
          /\ attempt' = [attempt EXCEPT ![x][a] = "failed"] /\ UNCHANGED <<spec, slipped>>
       \/ /\ Analyzing(x) /\ \E b \in Pictures : ~picture[b]
          /\ attempt' = [attempt EXCEPT ![x][a] = "failed"] /\ spec' = Failed(x) /\ UNCHANGED slipped
    /\ UNCHANGED <<sku, version, project, job, picture, quote, batch, price, desk, confirm,
                   submit, crossed, changes>>

(* A report becomes the draft.  One that is wrong, or belongs to SKUs of   *)
(* another product, ends the analysis, and so does an error, unless it is  *)
(* temporary and attempts are left.  An error of the database is told to   *)
(* the queue only.                                                         *)
Report(x, a) ==
    /\ attempt[x][a] = "asked"
    /\ \/ /\ attempt' = [attempt EXCEPT ![x][a] = IF Analyzing(x) THEN "ok" ELSE "failed"]
          /\ spec' = [spec EXCEPT ![x].st = IF Analyzing(x) THEN "draft" ELSE @]
          /\ UNCHANGED slipped
       \/ /\ attempt' = [attempt EXCEPT ![x][a] = "failed"] /\ spec' = Failed(x)
          /\ UNCHANGED slipped
       \/ /\ attempt' = [attempt EXCEPT ![x][a] = "retry"]
          /\ spec' = IF a < MaxAnalysis THEN spec ELSE Failed(x)
          /\ UNCHANGED slipped
       \/ /\ attempt' = [attempt EXCEPT ![x][a] = "failed"]
          /\ slipped' = slipped \cup {x} /\ UNCHANGED spec
    /\ UNCHANGED <<sku, version, project, job, picture, quote, batch, price, desk, confirm,
                   submit, crossed, changes>>

(* A job that ends with its attempts used up takes the analysis along.     *)
Ended(x, retry) ==
    IF job[x].cancel THEN job' = [job EXCEPT ![x].st = "canceled"] /\ UNCHANGED spec
    ELSE IF job[x].tries >= MaxAnalysis
         THEN job' = [job EXCEPT ![x].st = "failed"] /\ spec' = Failed(x)
         ELSE job' = [job EXCEPT ![x].st = IF retry THEN "retrying" ELSE "failed"] /\ UNCHANGED spec

SettleAnalysis(x, a) ==
    /\ attempt[x][a] \in {"ok", "failed", "retry"}
    /\ attempt' = [attempt EXCEPT ![x][a] = "done"]
    /\ IF job[x].st # "running" \/ job[x].tries # a THEN UNCHANGED <<job, spec>>
       ELSE IF attempt[x][a] = "ok" /\ ~job[x].cancel
            THEN job' = [job EXCEPT ![x].st = "succeeded"] /\ UNCHANGED spec
            ELSE Ended(x, attempt[x][a] = "retry")
    /\ UNCHANGED <<sku, version, project, picture, quote, batch, price, desk, confirm, submit,
                   crossed, slipped, changes>>

(* A lease runs out: the worker stopped, or does not know yet.             *)
RecoverAnalysis(x) ==
    /\ job[x].st = "running" /\ Ended(x, TRUE)
    /\ UNCHANGED <<sku, version, project, attempt, picture, quote, batch, price, desk, confirm,
                   submit, crossed, slipped, changes>>
-----------------------------------------------------------------------------
(* Quotations and submissions.                                             *)

(* One item for all SKUs, and one for each.                                *)
Cost(r, each) == each * (1 + Cardinality(r.skus))

SpecFits(r)     == spec[r.spec].st = "confirmed" /\ spec[r.spec].context = Context
SkusFit(r)      == r.skus # {} /\ \A s \in r.skus : Active(s) /\ ProductOf[s] = project.product
PicturesFit(r)  == \A a \in r.pictures : picture[a]
PicturesBelong(r) == \A a \in r.pictures : SkuOf[a] \in r.skus \cup {0}
Compiles(r)     == Writable /\ SpecFits(r) /\ SkusFit(r) /\ PicturesFit(r) /\ PicturesBelong(r)

Estimate(q, r) ==
    /\ quote[q].st = "none" /\ \A i \in 1..(q - 1) : quote[i].st # "none"
    /\ Compiles(r)
    /\ quote' = [quote EXCEPT ![q] = [st |-> "issued", request |-> r, price |-> price, total |-> Cost(r, price)]]
    /\ UNCHANGED <<sku, version, project, spec, job, attempt, picture, batch, price, desk,
                   confirm, submit, crossed, slipped, changes>>

ExpireQuote(q) ==
    /\ quote[q].st = "issued" /\ quote' = [quote EXCEPT ![q].st = "expired"]
    /\ UNCHANGED <<sku, version, project, spec, job, attempt, picture, batch, price, desk,
                   confirm, submit, crossed, slipped, changes>>

SetPrice ==
    /\ Counted /\ price' = 3 - price
    /\ UNCHANGED <<sku, version, project, spec, job, attempt, picture, quote, batch, desk,
                   confirm, submit, crossed, slipped>>

BeginSubmit(k, q) ==
    /\ ProjectFree /\ batch[k].st = "none"
    /\ quote[q].st = "issued" /\ Compiles(quote[q].request)
    /\ submit' = [key |-> k, quote |-> q]
    /\ UNCHANGED <<sku, version, project, spec, job, attempt, picture, quote, batch, price, desk,
                   confirm, crossed, slipped, changes>>

(* The batch is there, paid with what the quotation says.                  *)
FinishSubmit ==
    LET q == submit.quote IN
    /\ submit # NoSubmit /\ submit' = NoSubmit
    /\ IF quote[q].st = "issued"
       THEN /\ quote' = [quote EXCEPT ![q].st = "consumed"]
            /\ batch' = [batch EXCEPT ![submit.key] =
                            [st |-> "queued", request |-> quote[q].request, quote |-> q,
                             total |-> Cost(quote[q].request, quote[q].price)]]
       ELSE UNCHANGED <<quote, batch>>
    /\ UNCHANGED <<sku, version, project, spec, job, attempt, picture, price, desk, confirm,
                   crossed, slipped, changes>>
-----------------------------------------------------------------------------
StudioNext ==
    \/ \E s \in Skus :
          \/ \E st \in {"active", "disabled"} : CreateSKU(s, st)
          \/ \E st \in {"active", "disabled", "other"} : PatchSKU(s, st)
          \/ Bootstrap(s)
    \/ \E p \in Products : ApplySKUMatrix(p)
    \/ CreateProject
    \/ \E d \in Editors : LoadPatch(d) \/ SavePatch(d)
    \/ ClearDefault \/ BlockProject \/ RequestDeletion \/ FinalizeDeletion
    \/ \E a \in Pictures : ChangePicture(a)
    \/ \E x \in Specs :
          \/ (\E complete \in BOOLEAN : CreateManual(x, complete))
          \/ PatchSpec(x) \/ LoadConfirm(x)
          \/ AnalyzeProduct(x) \/ ClaimAnalysis(x) \/ RecoverAnalysis(x)
          \/ \E a \in Attempts : LoadAnalysis(x, a) \/ Report(x, a) \/ SettleAnalysis(x, a)
    \/ SaveConfirm
    \/ \E q \in 1..MaxQuotes :
          \/ (\E r \in Requests : Estimate(q, r))
          \/ ExpireQuote(q)
          \/ \E k \in SubmitKeys : BeginSubmit(k, q)
    \/ SetPrice \/ FinishSubmit

StudioSpec == StudioInit /\ [][StudioNext]_commerceStudio
-----------------------------------------------------------------------------
StudioTypeOK ==
    /\ sku \in [Skus -> {"none", "active", "disabled", "other"}]
    /\ version \in [Products -> 0..MaxChanges]
    /\ project.st \in {"none", "active", "blocked", "leaving", "gone"}
    /\ \A x \in Specs :
          /\ spec[x].st \in {"none", "analyzing", "draft", "confirmed", "analysis_failed"}
          /\ job[x].st \in {"none", "queued", "retrying", "running", "succeeded", "failed", "canceled"}
    /\ \A q \in 1..MaxQuotes : quote[q].st \in {"none", "issued", "expired", "consumed"}
    /\ \A k \in SubmitKeys : batch[k].st \in {"none", "queued"}

(* A project's default SKU is one of its product's and is not disabled,    *)
(* whatever is done to SKUs and projects meanwhile.  The exceptions are    *)
(* projects whose product and default two overlapping requests changed.    *)
DefaultServes ==
    There /\ project.def # 0 /\ ~crossed =>
        ProductOf[project.def] = project.product /\ sku[project.def] # "disabled"

(* What a submission has checked still holds when it writes the batch.     *)
SubmissionHolds ==
    submit # NoSubmit =>
        LET r == quote[submit.quote].request IN
        /\ Writable
        /\ \A s \in r.skus : Active(s) /\ ProductOf[s] = project.product

(* A quotation pays for one batch, the one it was asked for, at the price  *)
(* it told.                                                                *)
QuotesSpentOnce ==
    /\ \A k \in SubmitKeys : batch[k].st # "none" =>
          LET q == quote[batch[k].quote] IN
          q.st = "consumed" /\ q.request = batch[k].request /\ q.total = batch[k].total
    /\ \A q \in 1..MaxQuotes :
          Cardinality({k \in SubmitKeys : batch[k].st # "none" /\ batch[k].quote = q})
              = IF quote[q].st = "consumed" THEN 1 ELSE 0

(* The specification a project works with is a confirmed one.              *)
ActiveIsConfirmed == project.spec # 0 => spec[project.spec].st = "confirmed"

(* An analysis ends: as long as it is under way somebody works for it or   *)
(* will, whatever becomes of the workers.                                  *)
AnalysisSettles ==
    \A x \in Specs : spec[x].st = "analyzing" =>
        Pending(x) \/ job[x].st = "running" \/ x \in slipped \/ project.st \in {"leaving", "gone"}

StudioSound ==
    DefaultServes /\ SubmissionHolds /\ QuotesSpentOnce /\ ActiveIsConfirmed /\ AnalysisSettles
=================================================================================
