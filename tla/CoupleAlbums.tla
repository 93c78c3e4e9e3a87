----------------------------- MODULE CoupleAlbums -----------------------------
(***************************************************************************)
(* A photo album of a couple.  A request writes one generation record and  *)
(* one page after the other, and a goroutine paints them in turn; a failed *)
(* page is tried again by a request and a goroutine of its own.  Both read *)
(* the album first and write it later, and after every page the goroutine  *)
(* reads all pages and writes what they add up to into the album.          *)
(***************************************************************************)
EXTENDS Naturals, Sequences, FiniteSets

CONSTANTS
    AlbumPages,     \* coupleAlbumPageCount
    AlbumRequests,  \* the requests to generate it or a page, numbered as they begin
    AlbumCredits,   \* the balance of the owner
    MaxPictures,    \* bound: generation records
    MaxErrors       \* bound: ignored errors and stops of the program

ASSUME AlbumConstants ==
    {AlbumPages, AlbumCredits, MaxPictures, MaxErrors} \subseteq Nat /\ AlbumPages > 0

PictureIds == 1..MaxPictures

VARIABLES
    album,      \* the row of couple_albums; the photos it was made from
    pages,      \* couple_album_pages, by the record they were created with
    drawn,      \* generation_records and the works they made
    wallet,     \* the balance
    ask,        \* the requests and their goroutines
    overtaken,  \* history: a row was written that had changed since it was read
    errors

coupleAlbums == <<album, pages, drawn, wallet, ask, overtaken, errors>>

NoPage    == [number |-> 0, status |-> "none", record |-> 0, work |-> 0]
NoPicture == [status |-> "none", of |-> 0]
Resting   == [at |-> "new", saw |-> NoPage, read |-> "none", todo |-> <<>>]

AlbumInit ==
    /\ album = [status |-> "none", photos |-> TRUE]
    /\ pages = [r \in PictureIds |-> NoPage]
    /\ drawn = [r \in PictureIds |-> NoPicture]
    /\ wallet = AlbumCredits
    /\ ask = [q \in AlbumRequests |-> Resting]
    /\ overtaken = FALSE /\ errors = 0

PageRows     == {r \in PictureIds : pages[r] # NoPage}
NewOnes  == {r \in PictureIds : drawn[r] = NoPicture}
NextOne  == CHOOSE r \in NewOnes : TRUE
Written(r, p) == pages' = [pages EXCEPT ![r] = IF r \in PageRows THEN p ELSE @]
Recorded(n) == drawn' = [drawn EXCEPT ![NextOne] = [status |-> "queued", of |-> n]]
To(q, stage) == ask' = [ask EXCEPT ![q].at = stage]
Turn(q) == ask[q].at = "new" /\ \A o \in AlbumRequests : o < q => ask[o].at # "new"

-----------------------------------------------------------------------------
(* The album is made from photos of its owner, who may delete them.         *)
CreateAlbum ==
    /\ album.status = "none" /\ album.photos
    /\ album' = [album EXCEPT !.status = "draft"]
    /\ UNCHANGED <<pages, drawn, wallet, ask, overtaken, errors>>

DropPhotos ==
    /\ album.photos /\ album' = [album EXCEPT !.photos = FALSE]
    /\ UNCHANGED <<pages, drawn, wallet, ask, overtaken, errors>>

(* The photos are there and the credits suffice for as many pages.          *)
Prepared(count) == album.photos /\ wallet >= count

(* An album that is not under way and has no pages, or only those of a      *)
(* request that failed on the way, which are deleted.                       *)
BeginGenerate(q) ==
    /\ Turn(q) /\ Prepared(AlbumPages)
    /\ album.status \notin {"none", "generating"}
    /\ PageRows = {} \/ album.status = "draft"
    /\ ask' = [ask EXCEPT ![q].at = IF PageRows = {} THEN "write" ELSE "clear", ![q].read = album.status]
    /\ UNCHANGED <<album, pages, drawn, wallet, overtaken, errors>>

(* The status was written since it was read, or another request that read   *)
(* the same is still writing the pages.                                     *)
Generating == {o \in AlbumRequests : ask[o].at \in {"write", "clear"}}
Meanwhile(q) ==
    overtaken' = (overtaken \/ album.status # ask[q].read \/ Generating # {q})

ClearPages(q) ==
    /\ ask[q].at = "clear"
    /\ \/ pages' = [r \in PictureIds |-> NoPage] /\ To(q, "write") /\ Meanwhile(q)
       \/ UNCHANGED <<pages, overtaken>> /\ To(q, "over")
    /\ UNCHANGED <<album, drawn, wallet, errors>>

(* A record, and then its page, unless the album has one of that number     *)
(* (idx_couple_album_page); an error ends the request and leaves what was   *)
(* written.                                                                 *)
WriteAlbumPage(q) ==
    LET n == Len(ask[q].todo) + 1
    IN  /\ ask[q].at = "write" /\ n <= AlbumPages
        /\ \/ /\ NewOnes # {} /\ Recorded(n)
              /\ \A r \in PageRows : pages[r].number # n
              /\ pages' = [pages EXCEPT ![NextOne] =
                     [number |-> n, status |-> "queued", record |-> NextOne, work |-> 0]]
              /\ ask' = [ask EXCEPT ![q].todo = Append(@, <<NextOne, NextOne>>)]
           \/ NewOnes # {} /\ Recorded(n) /\ UNCHANGED pages /\ To(q, "over")
           \/ UNCHANGED <<drawn, pages>> /\ To(q, "over")
    /\ UNCHANGED <<album, wallet, overtaken, errors>>

StartGenerate(q) ==
    /\ ask[q].at = "write" /\ Len(ask[q].todo) = AlbumPages
    /\ \/ album' = [album EXCEPT !.status = "generating"] /\ To(q, "run") /\ Meanwhile(q)
       \/ UNCHANGED <<album, overtaken>> /\ To(q, "over")
    /\ UNCHANGED <<pages, drawn, wallet, errors>>

(* A mutant: any page that has ended may be tried again.                    *)
MayRetryEnded(r) == pages[r].status \in {"failed", "succeeded"}

MayRetry(r) == pages[r].status = "failed"

BeginRetry(q) ==
    /\ Turn(q) /\ Prepared(1)
    /\ \E r \in PageRows :
         /\ MayRetry(r)
         /\ ask' = [ask EXCEPT ![q].at = "retry", ![q].saw = pages[r], ![q].todo = <<<<r, 0>>>>]
    /\ UNCHANGED <<album, pages, drawn, wallet, overtaken, errors>>

(* The record; then page and album in one transaction.                      *)
CommitRetry(q) ==
    LET r == ask[q].todo[1][1]
    IN  /\ ask[q].at = "retry"
        /\ \/ /\ NewOnes # {} /\ Recorded(ask[q].saw.number)
              /\ \/ /\ Written(r, [pages[r] EXCEPT !.status = "queued", !.record = NextOne, !.work = 0])
                    /\ album' = [album EXCEPT !.status = "generating"]
                    /\ ask' = [ask EXCEPT ![q].at = "run", ![q].todo = <<<<r, NextOne>>>>]
                    /\ overtaken' = (overtaken \/ pages[r] # ask[q].saw)
                 \/ To(q, "over") /\ UNCHANGED <<pages, album, overtaken>>
           \/ To(q, "over") /\ UNCHANGED <<pages, album, drawn, overtaken>>
    /\ UNCHANGED <<wallet, errors>>

-----------------------------------------------------------------------------
(* The goroutine.  Errors of the statements that tell the page and the      *)
(* album are ignored.                                                       *)
Slips == errors < MaxErrors /\ errors' = errors + 1

Tells(r, p) == (Written(r, p) /\ UNCHANGED errors) \/ (Slips /\ UNCHANGED pages)

BeginPage(q) ==
    LET r == Head(ask[q].todo)[1]
    IN  /\ ask[q].at = "run" /\ ask[q].todo # <<>>
        /\ Tells(r, [pages[r] EXCEPT !.status = "running"])
        /\ To(q, "paint")
    /\ UNCHANGED <<album, drawn, wallet, overtaken>>

(* The picture is made, and paid with its work, or its record failed.       *)
PaintPage(q) ==
    LET r == Head(ask[q].todo)[2]
    IN  /\ ask[q].at = "paint" /\ To(q, "tell")
        /\ \/ /\ wallet > 0 /\ wallet' = wallet - 1
              /\ drawn' = [drawn EXCEPT ![r].status = "succeeded"]
           \/ drawn' = [drawn EXCEPT ![r].status = "failed"] /\ UNCHANGED wallet
    /\ UNCHANGED <<album, pages, overtaken, errors>>

TellPage(q) ==
    LET r == Head(ask[q].todo)[1]
        n == Head(ask[q].todo)[2]
        ok == drawn[n].status = "succeeded"
    IN  /\ ask[q].at = "tell"
        /\ Tells(r, [pages[r] EXCEPT !.status = drawn[n].status, !.work = IF ok THEN n ELSE 0])
        /\ To(q, "read")
    /\ UNCHANGED <<album, drawn, wallet, overtaken>>

(* What the pages add up to.                                                *)
Having(s) == {r \in PageRows : pages[r].status \in s}
AddsUpTo ==
    CASE PageRows = {}                          -> "draft"
      [] Having({"queued", "running"}) # {} -> "generating"
      [] Having({"failed"}) = PageRows          -> "failed"
      [] Having({"failed"}) # {}            -> "partial_failed"
      [] OTHER                              -> "succeeded"

ReadPages(q) ==
    /\ ask[q].at = "read"
    /\ ask' = [ask EXCEPT ![q].at = "sum", ![q].read = AddsUpTo]
    /\ UNCHANGED <<album, pages, drawn, wallet, overtaken, errors>>

WriteAlbum(q) ==
    /\ ask[q].at = "sum"
    /\ \/ /\ album' = [album EXCEPT !.status = ask[q].read] /\ UNCHANGED errors
          /\ overtaken' = (overtaken \/ \E o \in AlbumRequests \ {q} : ask[o].at = "sum")
       \/ Slips /\ UNCHANGED <<album, overtaken>>
    /\ ask' = [ask EXCEPT ![q].todo = Tail(@), ![q].at = IF Len(ask[q].todo) = 1 THEN "over" ELSE "run"]
    /\ UNCHANGED <<pages, drawn, wallet>>

(* Requests and goroutines end with the program.  The records they leave    *)
(* are failed at the next start or when they are old; the pages stay.       *)
AlbumStops ==
    /\ Slips /\ \E q \in AlbumRequests : ask[q].at \notin {"new", "over"}
    /\ ask' = [q \in AlbumRequests |-> IF ask[q].at = "new" THEN ask[q] ELSE [ask[q] EXCEPT !.at = "over"]]
    /\ drawn' = [r \in PictureIds |-> IF drawn[r].status = "queued"
                                       THEN [drawn[r] EXCEPT !.status = "failed"] ELSE drawn[r]]
    /\ UNCHANGED <<album, pages, wallet, overtaken>>

AlbumNext ==
    \/ CreateAlbum \/ DropPhotos \/ AlbumStops
    \/ \E q \in AlbumRequests :
         \/ BeginGenerate(q) \/ ClearPages(q) \/ WriteAlbumPage(q) \/ StartGenerate(q)
         \/ BeginRetry(q) \/ CommitRetry(q)
         \/ BeginPage(q) \/ PaintPage(q) \/ TellPage(q) \/ ReadPages(q) \/ WriteAlbum(q)

AlbumSpec == AlbumInit /\ [][AlbumNext]_coupleAlbums

-----------------------------------------------------------------------------
(* The types of the rows.                                                  *)
AlbumTypeOK ==
    /\ album \in [status : {"none", "draft", "generating", "succeeded", "partial_failed", "failed"},
                  photos : BOOLEAN]
    /\ pages \in [PictureIds -> [number : 0..AlbumPages, record : 0..MaxPictures, work : 0..MaxPictures,
                     status : {"none", "queued", "running", "failed", "succeeded"}]]
    /\ drawn \in [PictureIds -> [status : {"none", "queued", "failed", "succeeded"},
                       of : 0..AlbumPages]]
    /\ wallet \in Nat /\ errors \in 0..MaxErrors /\ overtaken \in BOOLEAN

(* The works that the album, and everyone it is shared with, shows.         *)
Visible == {pages[r].work : r \in Having({"succeeded"})}

(* A page that is done shows a paid work that was made for its number, even *)
(* if its rows were deleted and written again or painted by two goroutines. *)
PagesShowTheirOwn ==
    \A r \in Having({"succeeded"}) :
        LET w == pages[r].work IN w # 0 /\ drawn[w].status = "succeeded" /\ drawn[w].of = pages[r].number

(* Unless a request wrote over what it had not read, a page is paid once.   *)
PagesPaidOnce ==
    ~overtaken => \A a, b \in PictureIds :
        drawn[a].status = "succeeded" /\ drawn[b] = drawn[a] => a = b

(* When nothing is under way, went wrong or was overtaken, the album is     *)
(* what its pages add up to, none is left queued and all that was paid can  *)
(* be seen.                                                                 *)
AlbumSettles ==
    /\ \A q \in AlbumRequests : ask[q].at \in {"new", "over"}
    /\ errors = 0 /\ ~overtaken /\ album.status \notin {"none", "draft"}
    => /\ album.status = AddsUpTo /\ album.status # "generating"
       /\ {r \in PictureIds : drawn[r].status = "succeeded"} = Visible

(* handleGenerateCoupleAlbum, handleRetryCoupleAlbumPage and their          *)
(* goroutines (runCoupleAlbumGenerationTasks, refreshCoupleAlbumStatus).    *)
AlbumSound == AlbumTypeOK /\ PagesShowTheirOwn /\ PagesPaidOnce /\ AlbumSettles
=============================================================================
