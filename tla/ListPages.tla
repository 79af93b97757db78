------------------------------ MODULE ListPages ------------------------------
(***************************************************************************)
(* hansard_check_for_new_sources: the crawler that walks the list pages of *)
(* the two Houses of the Kenyan parliament, newest transcript first, and   *)
(* creates a Source for each link it does not know.                        *)
(*                                                                         *)
(* The lists grow at the top while the crawler walks them, so a transcript *)
(* moves to later pages; the crawler stops at a page whose last link it    *)
(* knows.  A transcript is named by its rank of publication, 1 the oldest; *)
(* the two lists use the same names.                                       *)
(***************************************************************************)
EXTENDS Naturals, Sequences, SequencesExt

CONSTANTS
    List,           \* the list pages, in the order the command walks them
    PageSize,       \* links on a page
    MaxPublished,   \* bound: transcripts on a list
    MaxBetween,     \* bound: transcripts added between two requests
    MaxAborts       \* bound: crawls ended by an exception or a kill

ASSUME ListPagesAssumption ==
    /\ List \in Seq(STRING) /\ Len(List) > 0 /\ IsInjective(List)
    /\ PageSize \in Nat \ {0}
    /\ MaxPublished \in Nat /\ MaxBetween \in Nat /\ MaxAborts \in Nat

VARIABLES
    published,  \* list -> number of transcripts on the site
    known,      \* list -> transcripts with a Source row
    pc,
    at,         \* index in List of the list being walked
    page,       \* number of the page in hand, or to request next
    links,      \* what is left of its links, newest first
    more,       \* the page had a link to a next one
    getNext,    \* get_next_page
    checkAll,   \* --check-all
    between,    \* transcripts added to the list since the last request
    atStart,    \* history: published when the walk of this list began
    aborts

walk == <<pc, at, page, links, more, getNext, checkAll>>
vars == <<published, known, walk, between, atStart, aborts>>

Lists == Range(List)
Pages(n) == (n + PageSize - 1) \div PageSize

TypeOK ==
    /\ published \in [Lists -> 0..MaxPublished]
    /\ \A l \in Lists : known[l] \subseteq 1..published[l]
    /\ pc \in {"idle", "fetch", "link", "decide"}
    /\ at \in 1..Len(List)
    /\ page \in 1..Pages(published[List[at]]) \cup {1}
    /\ Range(links) \subseteq 1..published[List[at]]
    /\ more \in BOOLEAN /\ getNext \in BOOLEAN /\ checkAll \in BOOLEAN
    /\ between \in 0..MaxBetween
    /\ atStart \in 0..MaxPublished
    /\ aborts \in 0..MaxAborts

Init ==
    /\ published = [l \in Lists |-> 0]
    /\ known = [l \in Lists |-> {}]
    /\ pc = "idle" /\ at = 1 /\ page = 1 /\ links = <<>>
    /\ more = FALSE /\ getNext = FALSE /\ checkAll = FALSE
    /\ between = 0 /\ atStart = 0 /\ aborts = 0

(* The site adds a transcript at the top of a list.                        *)
Publish(l) ==
    /\ published[l] < MaxPublished
    /\ IF pc # "idle" /\ l = List[at]
         THEN between < MaxBetween /\ between' = between + 1
         ELSE UNCHANGED between
    /\ published' = [published EXCEPT ![l] = @ + 1]
    /\ UNCHANGED <<known, walk, atStart, aborts>>

(* The links of page k of a list with n transcripts.                       *)
OnPage(k, n) ==
    LET first == n - (k - 1) * PageSize
        last  == IF n > k * PageSize THEN first - PageSize + 1 ELSE 1
    IN [i \in 1..(first - last + 1) |-> first - i + 1]

(* Start with the first page of the i-th list.                             *)
Begin(i) ==
    /\ pc' = "fetch" /\ at' = i /\ page' = 1
    /\ links' = <<>> /\ more' = FALSE /\ getNext' = FALSE
    /\ between' = 0
    /\ atStart' = published[List[i]]

Stopped ==
    /\ pc' = "idle" /\ at' = 1 /\ page' = 1
    /\ links' = <<>> /\ more' = FALSE /\ getNext' = FALSE /\ checkAll' = FALSE
    /\ between' = 0 /\ atStart' = 0

StartCrawl(all) ==
    /\ pc = "idle"
    /\ Begin(1)
    /\ checkAll' = all
    /\ UNCHANGED <<published, known, aborts>>

(* The walk of this list is over; process_url of the next one, if any.     *)
NextList ==
    IF at < Len(List) THEN Begin(at + 1) /\ UNCHANGED checkAll ELSE Stopped

(* get_next_url: the pager of the page.                                    *)
HasNext(k, n) == n > k * PageSize

Fetch ==
    /\ pc = "fetch"
    /\ LET n == published[List[at]] IN
        /\ OnPage(page, n) # <<>>
        /\ links' = OnPage(page, n)
        /\ more' = HasNext(page, n)
    /\ between' = 0
    /\ pc' = "link"
    /\ UNCHANGED <<published, known, at, page, getNext, checkAll, atStart, aborts>>

(* A page without links: NoSourcesFoundError is a warning, the other list  *)
(* is walked all the same.                                                 *)
FetchEmpty ==
    /\ pc = "fetch"
    /\ OnPage(page, published[List[at]]) = <<>>
    /\ NextList
    /\ UNCHANGED <<published, known, aborts>>

(* Mutant: the name is looked up without the list page.                    *)
Exists_AnyList(name) == \E l \in Lists : name \in known[l]

Exists(name) == name \in known[List[at]]

Link ==
    /\ pc = "link"
    /\ links # <<>>
    /\ LET name == Head(links) IN
        IF Exists(name)
          THEN getNext' = FALSE /\ UNCHANGED known
          ELSE /\ getNext' = TRUE
               /\ known' = [known EXCEPT ![List[at]] = @ \cup {name}]
    /\ links' = Tail(links)
    /\ pc' = IF Len(links) = 1 THEN "decide" ELSE "link"
    /\ UNCHANGED <<published, at, page, more, checkAll, between, atStart, aborts>>

(* Mutant: --check-all is read as the answer for the first page only.      *)
Continue_FirstPage == getNext \/ (checkAll /\ page = 1)

(* get_next_page is the answer for the last link of the page.              *)
Continue == getNext \/ checkAll

Decide ==
    /\ pc = "decide"
    /\ IF Continue /\ more
         THEN /\ pc' = "fetch" /\ page' = page + 1 /\ more' = FALSE
              /\ UNCHANGED <<at, links, getNext, checkAll, between, atStart>>
         ELSE NextList
    /\ UNCHANGED <<published, known, aborts>>

(* A request or a date that raises, or a kill: the rows created stay.      *)
Abort ==
    /\ pc # "idle"
    /\ aborts < MaxAborts
    /\ aborts' = aborts + 1
    /\ Stopped
    /\ UNCHANGED <<published, known>>

Next ==
    \/ \E l \in Lists : Publish(l)
    \/ \E all \in BOOLEAN : StartCrawl(all)
    \/ Fetch \/ FetchEmpty \/ Link \/ Decide \/ Abort

Spec == Init /\ [][Next]_vars

-----------------------------------------------------------------------------
(* Properties.                                                             *)

(* Without aborts the crawler leaves no hole: whatever is older than a     *)
(* transcript it knows, it knows, although the lists grow while it walks   *)
(* them.  This is what lets it stop at the first page whose last link it   *)
(* knows; it needs fewer new transcripts between two requests than a page  *)
(* has links.                                                              *)
NoHole ==
    aborts = 0 /\ pc = "idle" =>
        \A l \in Lists : \A i \in known[l] : 1..i \subseteq known[l]

WalkEnds == pc # "idle" /\ aborts' = aborts /\ (at' # at \/ pc' = "idle")

(* A crawl with --check-all that ends by itself closes every hole: it      *)
(* knows all that was on the list when it began.                           *)
CheckAllComplete ==
    [][WalkEnds /\ checkAll => 1..atStart \subseteq known'[List[at]]]_vars
=============================================================================
