--------------------------- MODULE ListPages_proofs ---------------------------
(***************************************************************************)
(* Proofs about ListPages, for any number of lists, pages of any size and  *)
(* any number of transcripts and aborts; and about the last steps of the   *)
(* command for questions, SayItQuestions.                                  *)
(***************************************************************************)
EXTENDS ListPages, SayItQuestions, Integers, FiniteSetTheorems, SequenceTheorems, TLAPS

Here == List[at]

(* What the list held at the last request.                                 *)
AtRequest == published[Here] - between

(* The links on the pages before page k.                                   *)
Skipped(k) == (k - 1) * PageSize

(* The oldest link of the page in hand.                                    *)
LastLink == IF more THEN AtRequest - Skipped(page) - PageSize + 1 ELSE 1

Types ==
    /\ published \in [Lists -> Nat]
    /\ known \in [Lists -> SUBSET (Nat \ {0})]
    /\ pc \in {"idle", "fetch", "link", "decide"}
    /\ at \in 1..Len(List) /\ page \in Nat \ {0}
    /\ links \in Seq(Int)
    /\ more \in BOOLEAN /\ getNext \in BOOLEAN /\ checkAll \in BOOLEAN
    /\ between \in 0..MaxBetween /\ atStart \in Nat /\ aborts \in Nat

(* A page in hand has links, without gaps down to the last; the crawler    *)
(* goes on to pages only that the site has.                                *)
PageInHand ==
    /\ pc = "fetch" /\ page > 1 => AtRequest - Skipped(page) >= 1
    /\ pc \in {"link", "decide"} => LastLink >= 1
    /\ pc \in {"link", "decide"} /\ more => LastLink >= 2
    /\ pc = "link" => Len(links) > 0
    /\ pc = "link" => \A i \in 1..Len(links) : links[i] = LastLink + Len(links) - i

Closed(S) == \A i \in S : 1..i \subseteq S

(* Whatever is missing below a member of S is at or below f.               *)
ClosedFrom(S, f) == \A i \in S : IF i <= f THEN 1..i \subseteq S ELSE (f + 1)..i \subseteq S

(* The crawler leaves one gap, below the oldest transcript it has handled  *)
(* on this walk; a page that starts above that repeats known links only.   *)
Gap(f) ==
    /\ ClosedFrom(known[Here], f)
    /\ LastLink <= f /\ f <= links[1]
    /\ (f + 1)..links[1] \subseteq known[Here]

OthersClosed ==
    \A i \in 1..Len(List) :
        (i = at => pc = "idle" \/ (pc = "fetch" /\ page = 1)) => Closed(known[List[i]])

FetchGap ==
    pc = "fetch" /\ page > 1 =>
        LET f == AtRequest - Skipped(page) IN
          ClosedFrom(known[Here], f) /\ (f + 1)..(f + PageSize) \subseteq known[Here]

LinkGap ==
    pc = "link" =>
        /\ \E f \in Nat : Gap(f)
        /\ more => (links[1] + 1)..(LastLink + PageSize - 1) \subseteq known[Here]

PageGap ==
    pc = "decide" =>
        /\ ClosedFrom(known[Here], LastLink - 1)
        /\ ~getNext => 1..LastLink \subseteq known[Here]
        /\ more => LastLink..(LastLink + PageSize - 1) \subseteq known[Here]

GapOnly == OthersClosed /\ FetchGap /\ LinkGap /\ PageGap

(* A walk that goes to the end has handled all it has passed.              *)
Passed ==
    /\ pc = "fetch" /\ page = 1 => atStart <= published[Here]
    /\ pc = "fetch" /\ page > 1 =>
          (AtRequest - Skipped(page) + 1)..atStart \subseteq known[Here]
    /\ pc = "link" => (links[1] + 1)..atStart \subseteq known[Here]
    /\ pc = "decide" => LastLink..atStart \subseteq known[Here]

Inv == Types /\ PageInHand /\ Passed

-----------------------------------------------------------------------------
LEMMA SkippedNext ==
  ASSUME NEW k \in Nat \ {0}
  PROVE  /\ Skipped(k) \in Nat /\ Skipped(1) = 0
         /\ k * PageSize = Skipped(k) + PageSize
         /\ Skipped(k + 1) = Skipped(k) + PageSize
<1>1. PageSize \in Nat
  BY ListPagesAssumption
<1>2. k - 1 \in Nat
  OBVIOUS
<1>3. (k - 1) * PageSize \in Nat
  BY <1>1, <1>2
<1>4. k * PageSize = (k - 1) * PageSize + PageSize
  BY <1>1
<1>5. (k + 1) - 1 = k
  OBVIOUS
<1>6. (1 - 1) * PageSize = 0
  BY <1>1
<1> QED
  BY <1>3, <1>4, <1>5, <1>6 DEF Skipped

(* The links of a page: from its first, down to its last, without gaps.    *)
LastOn(k, n) == IF n > Skipped(k) + PageSize THEN n - Skipped(k) - PageSize + 1 ELSE 1

LEMMA OnPageLinks ==
  ASSUME NEW k \in Nat \ {0}, NEW n \in Nat, n - Skipped(k) >= 1
  PROVE  /\ LastOn(k, n) \in Nat /\ LastOn(k, n) >= 1
         /\ n > Skipped(k) + PageSize => LastOn(k, n) >= 2
         /\ HasNext(k, n) <=> n > Skipped(k) + PageSize
         /\ OnPage(k, n) \in Seq(Int) /\ OnPage(k, n) # <<>>
         /\ Len(OnPage(k, n)) = n - Skipped(k) - LastOn(k, n) + 1
         /\ Len(OnPage(k, n)) > 0
         /\ \A i \in 1..Len(OnPage(k, n)) :
               OnPage(k, n)[i] = LastOn(k, n) + Len(OnPage(k, n)) - i
<1> DEFINE last == LastOn(k, n)
           first == n - Skipped(k)
           len == first - last + 1
<1>1. Skipped(k) \in Nat /\ k * PageSize = Skipped(k) + PageSize /\ PageSize \in Nat \ {0}
  BY SkippedNext, ListPagesAssumption
<1>2. /\ last \in Nat /\ last >= 1 /\ last <= first /\ first \in Nat
      /\ n > Skipped(k) + PageSize => last >= 2
  BY <1>1 DEF LastOn
<1>3. OnPage(k, n) = [i \in 1..len |-> first - i + 1]
  BY <1>1 DEF OnPage, Skipped, LastOn
<1>4. len \in Nat /\ len > 0
  BY <1>2
<1>5. HasNext(k, n) <=> n > Skipped(k) + PageSize
  BY <1>1 DEF HasNext
<1> HIDE DEF first, len, last
<1>6. \A i \in 1..len : first - i + 1 \in Int
  BY <1>2
<1>7. OnPage(k, n) \in Seq(Int) /\ Len(OnPage(k, n)) = len
  BY <1>3, <1>4, <1>6
<1>8. \A i \in 1..len : OnPage(k, n)[i] = first - i + 1
  BY <1>3
<1>9. \A i \in 1..len : first - i + 1 = last + len - i
  BY <1>2 DEF len
<1>10. OnPage(k, n) # <<>>
  BY <1>4, <1>7
<1> QED
  BY <1>2, <1>4, <1>5, <1>7, <1>8, <1>9, <1>10 DEF len, first, last

LEMMA ListsListed == \A i \in 1..Len(List) : List[i] \in Lists
  BY ListPagesAssumption DEF Lists, Range

LEMMA NothingInHand == <<>> \in Seq(Int) /\ 0 \in 0..MaxBetween /\ 1 \in Nat \ {0}
  BY ListPagesAssumption

-----------------------------------------------------------------------------
LEMMA InitInv == Init => Inv
<1> SUFFICES ASSUME Init
             PROVE  Inv
  OBVIOUS
<1>1. Len(List) \in Nat /\ 1 \in 1..Len(List)
  BY ListPagesAssumption
<1>2. Types
  BY <1>1, NothingInHand DEF Init, Types
<1>3. PageInHand /\ Passed
  BY DEF Init, PageInHand, Passed
<1> QED
  BY <1>2, <1>3 DEF Inv

(* A new transcript moves the pages, not what was on them when requested.  *)
LEMMA PublishInv ==
  ASSUME Inv, NEW l \in Lists, Publish(l)
  PROVE  /\ Inv'
         /\ pc # "idle" => AtRequest' = AtRequest /\ LastLink' = LastLink
<1>0. Types /\ PageInHand /\ Passed
  BY DEF Inv
<1>1. /\ published' = [published EXCEPT ![l] = published[l] + 1]
      /\ UNCHANGED <<known, pc, at, page, links, more, getNext, checkAll, atStart, aborts>>
      /\ \/ pc # "idle" /\ l = List[at] /\ between < MaxBetween /\ between' = between + 1
         \/ (pc = "idle" \/ l # List[at]) /\ between' = between
  BY DEF Publish, walk
<1>2. Here \in Lists /\ Here' = Here
  BY <1>0, <1>1, ListsListed DEF Types, Here
<1>3. between' \in 0..MaxBetween
  <2>1. between \in 0..MaxBetween
    BY <1>0 DEF Types
  <2> QED
    BY <1>1, <2>1, ListPagesAssumption
<1>4. Types'
  <2>1. published' \in [Lists -> Nat]
    BY <1>0, <1>1 DEF Types
  <2> QED
    BY <1>0, <1>1, <1>3, <2>1 DEF Types
<1>5. pc # "idle" => published'[Here] - between' = published[Here] - between
  <2>1. published[Here] \in Nat /\ between \in Int
    BY <1>0, <1>2 DEF Types
  <2>2. CASE pc # "idle" /\ l = Here
    <3>1. published'[Here] = published[Here] + 1 /\ between' = between + 1
      BY <1>0, <1>1, <1>2, <2>2 DEF Types, Here
    <3> QED
      BY <2>1, <3>1
  <2>3. CASE pc = "idle" \/ l # Here
    BY <1>0, <1>1, <1>2, <2>3 DEF Types, Here
  <2> QED
    BY <2>2, <2>3
<1>6. pc # "idle" => AtRequest' = AtRequest /\ LastLink' = LastLink
  BY <1>1, <1>2, <1>5 DEF AtRequest, LastLink, Skipped
<1>7. PageInHand'
  BY <1>0, <1>1, <1>6 DEF PageInHand, Skipped
<1>8. Passed'
  <2>1. atStart <= published[Here] => atStart <= published'[Here]
    BY <1>0, <1>1, <1>2 DEF Types
  <2> QED
    BY <1>0, <1>1, <1>2, <1>6, <2>1 DEF Passed, Skipped
<1> QED
  BY <1>4, <1>6, <1>7, <1>8 DEF Inv

LEMMA BeginInv ==
  ASSUME Inv, NEW i \in 1..Len(List), Begin(i),
         UNCHANGED <<published, known, aborts>>, checkAll' \in BOOLEAN
  PROVE  Inv'
<1>1. List[i] \in Lists
  BY ListsListed
<1>2. Types'
  BY <1>1, NothingInHand DEF Inv, Types, Begin
<1>3. PageInHand'
  BY DEF Begin, PageInHand
<1>4. published[List[i]] <= published[List[i]]
  BY <1>1 DEF Inv, Types
<1>5. Passed'
  BY <1>4 DEF Begin, Passed, Here
<1> QED
  BY <1>2, <1>3, <1>5 DEF Inv

LEMMA StoppedInv ==
  ASSUME Inv, Stopped, UNCHANGED <<published, known>>, aborts' \in Nat
  PROVE  Inv'
<1>1. Len(List) \in Nat /\ 1 \in 1..Len(List)
  BY ListPagesAssumption
<1>2. Types'
  BY <1>1, NothingInHand DEF Inv, Types, Stopped
<1>3. PageInHand' /\ Passed'
  BY DEF Stopped, PageInHand, Passed
<1> QED
  BY <1>2, <1>3 DEF Inv

LEMMA NextListInv ==
  ASSUME Inv, NextList, UNCHANGED <<published, known, aborts>>
  PROVE  Inv'
<1>1. aborts \in Nat /\ checkAll \in BOOLEAN /\ at \in 1..Len(List) /\ Len(List) \in Nat
  BY ListPagesAssumption DEF Inv, Types
<1>2. CASE Stopped
  BY <1>1, <1>2, StoppedInv
<1>3. CASE at < Len(List) /\ Begin(at + 1) /\ UNCHANGED checkAll
  <2>1. at + 1 \in 1..Len(List)
    BY <1>1, <1>3
  <2> QED
    BY <1>1, <1>3, <2>1, BeginInv
<1> QED
  BY <1>2, <1>3 DEF NextList

(* A page is fetched: its links reach up to what is passed at least.       *)
LEMMA Fetched ==
  ASSUME Inv, Fetch
  PROVE  /\ Types' /\ PageInHand' /\ Here' = Here /\ Here \in Lists
         /\ LastLink' = IF more' THEN published[Here] - Skipped(page) - PageSize + 1 ELSE 1
         /\ links'[1] = published[Here] - Skipped(page)
<1>0. Types /\ PageInHand /\ Passed
  BY DEF Inv
<1> DEFINE n == published[Here]
           top == n - Skipped(page)
           last == LastOn(page, n)
<1>1. /\ pc = "fetch" /\ pc' = "link" /\ links' = OnPage(page, n) /\ more' = HasNext(page, n)
      /\ OnPage(page, n) # <<>> /\ between' = 0
      /\ UNCHANGED <<published, known, at, page, getNext, checkAll, atStart, aborts>>
  BY DEF Fetch, Here
<1>2. Here \in Lists /\ n \in Nat /\ page \in Nat \ {0} /\ Skipped(page) \in Nat
  BY <1>0, ListsListed, SkippedNext DEF Types, Here
<1>3. top >= 1
  <2>1. CASE page > 1
    <3>1. published[Here] - between - Skipped(page) >= 1 /\ between \in 0..MaxBetween
      BY <1>0, <1>1, <2>1 DEF PageInHand, AtRequest, Types
    <3> QED
      BY <1>2, <3>1, ListPagesAssumption
  <2>2. CASE page = 1
    <3>1. Skipped(1) = 0
      BY SkippedNext
    <3>2. n # 0
      <4> SUFFICES ASSUME n = 0
                   PROVE  FALSE
        OBVIOUS
      <4>1. 1 * PageSize = PageSize /\ (1 - 1) * PageSize = 0 /\ PageSize \in Nat \ {0}
        BY ListPagesAssumption
      <4>2. OnPage(1, 0) = [i \in 1..(0 - 0 - 1 + 1) |-> 0 - 0 - i + 1]
        BY <4>1 DEF OnPage
      <4>3. 0 - 0 - 1 + 1 = 0
        OBVIOUS
      <4>4. OnPage(1, 0) = <<>>
        BY <4>2, <4>3
      <4> QED
        BY <1>1, <2>2, <4>4
    <3> QED
      BY <1>2, <2>2, <3>1, <3>2
  <2> QED
    BY <1>2, <2>1, <2>2
<1>4. /\ last \in Nat /\ last >= 1 /\ more' \in BOOLEAN
      /\ more' <=> n > Skipped(page) + PageSize
      /\ more' => last >= 2
      /\ links' \in Seq(Int) /\ Len(links') > 0 /\ Len(links') = top - last + 1
      /\ \A i \in 1..Len(links') : links'[i] = last + Len(links') - i
  <2>1. HasNext(page, n) \in BOOLEAN
    BY DEF HasNext
  <2> QED
    BY <1>1, <1>2, <1>3, <2>1, OnPageLinks
<1>5. Here' = Here /\ AtRequest' = n
  <2>1. n - 0 = n
    BY <1>2
  <2> QED
    BY <1>1, <2>1 DEF Here, AtRequest
<1>6. LastLink' = IF more' THEN n - Skipped(page) - PageSize + 1 ELSE 1
  BY <1>1, <1>5 DEF LastLink, Skipped
<1>7. LastLink' = last
  BY <1>4, <1>6 DEF LastOn
<1>8. Types'
  BY <1>0, <1>1, <1>4, ListPagesAssumption DEF Types
<1>9. PageInHand'
  BY <1>1, <1>4, <1>7 DEF PageInHand
<1>10. links'[1] = top
  <2>1. links'[1] = last + Len(links') - 1
    BY <1>4
  <2> QED
    BY <1>2, <1>4, <2>1
<1> QED
  BY <1>2, <1>5, <1>6, <1>8, <1>9, <1>10

LEMMA FetchInv ==
  ASSUME Inv, Fetch
  PROVE  Inv'
<1>0. Types /\ Passed
  BY DEF Inv
<1>1. /\ Here' = Here /\ Here \in Lists /\ Types' /\ PageInHand'
      /\ links'[1] = published[Here] - Skipped(page)
  BY Fetched
<1>2. pc = "fetch" /\ pc' = "link" /\ UNCHANGED <<known, atStart>>
  BY DEF Fetch
<1>3. /\ published[Here] \in Nat /\ between \in Nat /\ page \in Nat \ {0} /\ atStart \in Nat
      /\ Skipped(page) \in Nat /\ Skipped(1) = 0
  BY <1>0, <1>1, SkippedNext, ListPagesAssumption DEF Types
<1>4. (links'[1] + 1)..atStart \subseteq known[Here]
  <2>1. CASE page = 1
    <3>1. links'[1] = published[Here] /\ atStart <= published[Here]
      BY <1>0, <1>1, <1>2, <1>3, <2>1 DEF Passed
    <3> QED
      BY <1>3, <3>1
  <2>2. CASE page > 1
    <3>1. (AtRequest - Skipped(page) + 1)..atStart \subseteq known[Here]
      BY <1>0, <1>2, <2>2 DEF Passed
    <3>2. AtRequest - Skipped(page) <= links'[1] /\ AtRequest - Skipped(page) \in Int
      BY <1>1, <1>3 DEF AtRequest
    <3>3. links'[1] \in Int
      BY <1>1, <1>3
    <3>4. (links'[1] + 1)..atStart \subseteq (AtRequest - Skipped(page) + 1)..atStart
      BY <1>3, <3>2, <3>3
    <3> QED
      BY <3>1, <3>4
  <2> QED
    BY <1>3, <2>1, <2>2
<1>5. Passed'
  BY <1>1, <1>2, <1>4 DEF Passed
<1> QED
  BY <1>1, <1>5 DEF Inv

(* A link is handled: the next one is the one below it.                    *)
LEMMA Linked ==
  ASSUME Inv, Link
  PROVE  /\ Here \in Lists /\ Here' = Here /\ LastLink' = LastLink
         /\ links[1] \in Nat \ {0} /\ LastLink \in Int /\ LastLink <= links[1]
         /\ known'[Here] = known[Here] \cup {links[1]}
         /\ \A l \in Lists \ {Here} : known'[l] = known[l]
         /\ Types' /\ PageInHand'
         /\ \/ pc' = "decide" /\ links[1] = LastLink
            \/ pc' = "link" /\ links[1] > LastLink /\ links'[1] = links[1] - 1
<1>0. Types /\ PageInHand
  BY DEF Inv
<1>1. /\ pc = "link" /\ links # <<>> /\ links' = Tail(links)
      /\ pc' = IF Len(links) = 1 THEN "decide" ELSE "link"
      /\ UNCHANGED <<published, at, page, more, checkAll, between, atStart, aborts>>
  BY DEF Link
<1>2. Here \in Lists /\ Here' = Here /\ LastLink' = LastLink
  BY <1>0, <1>1, ListsListed DEF Types, Here, LastLink, AtRequest, Skipped
<1>3. published[Here] \in Nat /\ between \in Int /\ Skipped(page) \in Nat /\ PageSize \in Nat
  <2>1. published[Here] \in Nat /\ between \in 0..MaxBetween /\ page \in Nat \ {0}
    BY <1>0, <1>2 DEF Types
  <2>2. Skipped(page) \in Nat
    BY <2>1, SkippedNext
  <2> QED
    BY <2>1, <2>2, ListPagesAssumption
<1>4. LastLink \in Int /\ LastLink >= 1
  <2>1. AtRequest - Skipped(page) - PageSize + 1 \in Int
    BY <1>3 DEF AtRequest
  <2> QED
    BY <1>0, <1>1, <2>1 DEF PageInHand, LastLink
<1>5. /\ links \in Seq(Int) /\ Len(links) \in Nat /\ Len(links) > 0
      /\ \A i \in 1..Len(links) : links[i] = LastLink + Len(links) - i
  BY <1>0, <1>1 DEF Types, PageInHand
<1>6. links[1] = LastLink + Len(links) - 1
  BY <1>5
<1>7. links[1] \in Nat \ {0} /\ LastLink <= links[1]
  BY <1>4, <1>5, <1>6
<1>8. /\ links' \in Seq(Int) /\ Len(links') = Len(links) - 1
      /\ \A i \in 1..Len(links') : links'[i] = links[i + 1]
  BY <1>1, <1>5
<1>9. \A i \in 1..Len(links') : links'[i] = LastLink + Len(links') - i
  <2> SUFFICES ASSUME NEW i \in 1..Len(links')
               PROVE  links'[i] = LastLink + Len(links') - i
    OBVIOUS
  <2>1. i + 1 \in 1..Len(links) /\ links'[i] = links[i + 1]
    BY <1>5, <1>8
  <2>2. links[i + 1] = LastLink + Len(links) - (i + 1)
    BY <1>5, <2>1
  <2> QED
    BY <1>4, <1>5, <1>8, <2>1, <2>2
<1>10. known' = [known EXCEPT ![Here] = known[Here] \cup {links[1]}] /\ getNext' \in BOOLEAN
  <2>1. Head(links) = links[1]
    BY <1>5
  <2>2. CASE Exists(Head(links))
    <3>1. known' = known /\ getNext' = FALSE /\ links[1] \in known[Here]
      BY <2>1, <2>2 DEF Link, Exists, Here
    <3> QED
      BY <1>0, <1>2, <3>1 DEF Types
  <2>3. CASE ~Exists(Head(links))
    BY <2>1, <2>3 DEF Link, Here
  <2> QED
    BY <2>2, <2>3
<1>11. /\ known'[Here] = known[Here] \cup {links[1]}
       /\ \A l \in Lists \ {Here} : known'[l] = known[l]
       /\ known' \in [Lists -> SUBSET (Nat \ {0})]
  BY <1>0, <1>2, <1>7, <1>10 DEF Types
<1>12. Types'
  BY <1>0, <1>1, <1>8, <1>10, <1>11 DEF Types
<1>13. Len(links') > 0 <=> Len(links) # 1
  BY <1>5, <1>8
<1>14. PageInHand'
  <2>1. pc' \in {"link", "decide"} /\ (pc' = "link" => Len(links') > 0) /\ more' = more
    BY <1>1, <1>13
  <2> QED
    BY <1>0, <1>1, <1>2, <1>9, <2>1 DEF PageInHand
<1>15. \/ pc' = "decide" /\ links[1] = LastLink
       \/ pc' = "link" /\ links[1] > LastLink /\ links'[1] = links[1] - 1
  <2>1. CASE Len(links) = 1
    BY <1>1, <1>4, <1>6, <2>1
  <2>2. CASE Len(links) # 1
    <3>1. links'[1] = LastLink + Len(links') - 1
      BY <1>5, <1>8, <1>9, <2>2
    <3> QED
      BY <1>1, <1>4, <1>5, <1>6, <1>8, <2>2, <3>1
  <2> QED
    BY <2>1, <2>2
<1> QED
  BY <1>2, <1>4, <1>7, <1>11, <1>12, <1>14, <1>15

LEMMA LinkInv ==
  ASSUME Inv, Link
  PROVE  Inv'
<1>1. pc = "link" /\ atStart' = atStart /\ atStart \in Nat
  BY DEF Link, Inv, Types
<1>2. (links[1] + 1)..atStart \subseteq known[Here]
  BY <1>1 DEF Inv, Passed
<1>3. links[1]..atStart \subseteq known'[Here]
  <2>1. links[1] \in Int /\ known'[Here] = known[Here] \cup {links[1]}
    BY Linked
  <2>2. \A i \in links[1]..atStart : i = links[1] \/ i \in (links[1] + 1)..atStart
    BY <1>1, <2>1
  <2> QED
    BY <1>2, <2>1, <2>2
<1>4. CASE pc' = "decide"
  BY <1>1, <1>3, <1>4, Linked DEF Passed, Inv
<1>5. CASE pc' = "link"
  <2>1. links'[1] + 1 = links[1]
    BY <1>5, Linked
  <2> QED
    BY <1>1, <1>3, <1>5, <2>1, Linked DEF Passed, Inv
<1> QED
  BY <1>4, <1>5, Linked

(* The crawler goes to the next page, which is there.                      *)
LEMMA GoesOn ==
  ASSUME Inv, Decide, Continue, more
  PROVE  /\ Inv' /\ Here' = Here /\ page' > 1 /\ pc' = "fetch"
         /\ AtRequest' - Skipped(page') = LastLink - 1
         /\ LastLink \in Nat /\ LastLink >= 2
<1>0. Types /\ PageInHand /\ Passed
  BY DEF Inv
<1>1. /\ pc = "decide" /\ pc' = "fetch" /\ page' = page + 1 /\ more' = FALSE
      /\ UNCHANGED <<published, known, at, links, getNext, checkAll, between, atStart, aborts>>
  BY DEF Decide
<1>2. Here \in Lists /\ Here' = Here /\ AtRequest' = AtRequest
  BY <1>0, <1>1, ListsListed DEF Types, Here, AtRequest
<1>3. /\ published[Here] \in Nat /\ between \in Int /\ page \in Nat \ {0}
      /\ Skipped(page) \in Nat /\ PageSize \in Nat
      /\ Skipped(page + 1) = Skipped(page) + PageSize
  <2>1. published[Here] \in Nat /\ between \in 0..MaxBetween /\ page \in Nat \ {0}
    BY <1>0, <1>2 DEF Types
  <2>2. Skipped(page) \in Nat /\ Skipped(page + 1) = Skipped(page) + PageSize
    BY <2>1, SkippedNext
  <2> QED
    BY <2>1, <2>2, ListPagesAssumption
<1>4. Skipped(page') = Skipped(page) + PageSize
  BY <1>1, <1>3
<1>5. LastLink = AtRequest - Skipped(page) - PageSize + 1 /\ LastLink >= 2
  BY <1>0, <1>1 DEF LastLink, PageInHand
<1>6. AtRequest \in Int
  BY <1>3 DEF AtRequest
<1>7. AtRequest' - Skipped(page') = LastLink - 1 /\ LastLink \in Nat
  BY <1>2, <1>3, <1>4, <1>5, <1>6
<1>8. page' > 1 /\ page' \in Nat \ {0}
  BY <1>1, <1>3
<1>9. Types'
  BY <1>0, <1>1, <1>8 DEF Types
<1>10. PageInHand'
  <2>1. AtRequest' - Skipped(page') >= 1
    BY <1>5, <1>7
  <2> QED
    BY <1>1, <2>1 DEF PageInHand, Skipped
<1>11. Passed'
  <2>1. LastLink..atStart \subseteq known[Here]
    BY <1>0, <1>1 DEF Passed
  <2>2. AtRequest' - Skipped(page') + 1 = LastLink
    BY <1>7
  <2> QED
    BY <1>1, <1>2, <1>8, <2>1, <2>2 DEF Passed, Skipped
<1> QED
  BY <1>1, <1>2, <1>5, <1>7, <1>8, <1>9, <1>10, <1>11 DEF Inv

LEMMA NextInv ==
  ASSUME Inv, [Next]_vars
  PROVE  Inv'
<1>1. CASE \E l \in Lists : Publish(l)
  BY <1>1, PublishInv
<1>2. CASE \E all \in BOOLEAN : StartCrawl(all)
  <2>1. 1 \in 1..Len(List)
    BY ListPagesAssumption
  <2> QED
    BY <1>2, <2>1, BeginInv DEF StartCrawl
<1>3. CASE FetchEmpty
  BY <1>3, NextListInv DEF FetchEmpty
<1>4. CASE Decide
  BY <1>4, GoesOn, NextListInv DEF Decide
<1>5. CASE Abort
  <2>1. aborts' \in Nat
    BY <1>5 DEF Abort, Inv, Types
  <2> QED
    BY <1>5, <2>1, StoppedInv DEF Abort
<1>6. CASE UNCHANGED vars
  BY <1>6 DEF vars, walk, Inv, Types, PageInHand, Passed, LastLink, AtRequest, Skipped, Here
<1> QED
  BY <1>1, <1>2, <1>3, <1>4, <1>5, <1>6, FetchInv, LinkInv DEF Next

LEMMA Invariance == Spec => []Inv
<1> QED
  BY InitInv, NextInv, PTL DEF Spec

-----------------------------------------------------------------------------
(* Only the first page of a list can be empty.                             *)
LEMMA EmptyFirst ==
  ASSUME Inv, FetchEmpty
  PROVE  page = 1 /\ published[Here] = 0
<1>0. Types /\ PageInHand
  BY DEF Inv
<1>1. pc = "fetch" /\ OnPage(page, published[Here]) = <<>>
  BY DEF FetchEmpty, Here
<1>2. Here \in Lists /\ published[Here] \in Nat /\ page \in Nat \ {0}
  BY <1>0, ListsListed DEF Types, Here
<1>3. ~(published[Here] - Skipped(page) >= 1)
  BY <1>1, <1>2, OnPageLinks
<1>4. Skipped(page) \in Nat /\ Skipped(1) = 0
  BY <1>2, SkippedNext
<1>5. page = 1
  <2> SUFFICES ASSUME page > 1
               PROVE  FALSE
    BY <1>2
  <2>1. published[Here] - between - Skipped(page) >= 1
    BY <1>0, <1>1 DEF PageInHand, AtRequest
  <2>2. between \in 0..MaxBetween
    BY <1>0 DEF Types
  <2> QED
    BY <1>2, <1>3, <1>4, <2>1, <2>2, ListPagesAssumption
<1> QED
  BY <1>2, <1>3, <1>4, <1>5

(* A walk with --check-all ends at the last page of the list, so it has    *)
(* passed whatever was on the list when it began.                          *)
LEMMA WalkedAll ==
  ASSUME Inv, [Next]_vars, WalkEnds, checkAll
  PROVE  1..atStart \subseteq known'[Here]
<1>0. Types /\ PageInHand /\ Passed
  BY DEF Inv
<1>1. pc # "idle" /\ aborts' = aborts /\ (at' # at \/ pc' = "idle")
  BY DEF WalkEnds
<1>2. /\ Here \in Lists /\ published[Here] \in Nat /\ page \in Nat \ {0}
      /\ atStart \in Nat /\ aborts \in Nat
  BY <1>0, ListsListed DEF Types, Here
<1>3. ASSUME NEW l \in Lists, Publish(l)
      PROVE  FALSE
  BY <1>1, <1>3 DEF Publish, walk
<1>4. CASE \E all \in BOOLEAN : StartCrawl(all)
  BY <1>1, <1>4 DEF StartCrawl
<1>5. CASE Fetch \/ Link
  BY <1>0, <1>1, <1>5 DEF Fetch, Link
<1>6. CASE FetchEmpty
  <2>1. pc = "fetch" /\ page = 1 /\ published[Here] = 0
    BY <1>6, EmptyFirst DEF FetchEmpty
  <2>2. atStart = 0
    BY <1>0, <1>2, <2>1 DEF Passed
  <2> QED
    BY <2>2
<1>7. CASE Decide
  <2>1. pc = "decide" /\ known' = known /\ ~more
    BY <1>1, <1>7 DEF Decide, Continue
  <2>2. LastLink = 1
    BY <2>1 DEF LastLink
  <2> QED
    BY <1>0, <2>1, <2>2 DEF Passed
<1>8. CASE Abort
  BY <1>1, <1>2, <1>8 DEF Abort
<1>9. CASE UNCHANGED vars
  BY <1>1, <1>9 DEF vars, walk
<1> QED
  BY <1>3, <1>4, <1>5, <1>6, <1>7, <1>8, <1>9 DEF Next

(* A crawl with --check-all that ends by itself knows all that was on the  *)
(* list when it began, whatever is published while it walks: no bound on   *)
(* the transcripts between two requests is needed.                         *)
THEOREM ChecksAll == Spec => CheckAllComplete
<1>1. Inv /\ [Next]_vars => [WalkEnds /\ checkAll => 1..atStart \subseteq known'[List[at]]]_vars
  BY WalkedAll DEF Here
<1> QED
  BY <1>1, Invariance, PTL DEF Spec, CheckAllComplete

-----------------------------------------------------------------------------
(* The gap the crawler leaves, and how it closes.                          *)

LEMMA ListsDiffer ==
  ASSUME NEW i \in 1..Len(List), NEW j \in 1..Len(List), i # j
  PROVE  List[i] # List[j]
<1>1. List \in Seq(STRING) /\ IsInjective(List)
  BY ListPagesAssumption
<1>2. DOMAIN List = 1..Len(List)
  BY <1>1
<1> QED
  BY <1>1, <1>2 DEF IsInjective

(* Between walks no list has a hole.                                       *)
LEMMA BetweenWalks ==
  ASSUME \A i \in 1..Len(List) : Closed(known[List[i]]), known' = known,
         pc' = "idle" \/ (pc' = "fetch" /\ page' = 1)
  PROVE  GapOnly'
BY DEF GapOnly, OthersClosed, FetchGap, LinkGap, PageGap

LEMMA BetweenInit == Init => GapOnly
<1>1. Init => \A i \in 1..Len(List) : known[List[i]] = {}
  BY ListsListed DEF Init
<1> QED
  BY <1>1 DEF Init, GapOnly, OthersClosed, FetchGap, LinkGap, PageGap, Closed

LEMMA LastLinkInt ==
  ASSUME Inv
  PROVE  LastLink \in Int
<1>1. Here \in Lists
  BY ListsListed DEF Inv, Types, Here
<1>2. published[Here] \in Nat /\ between \in 0..MaxBetween /\ page \in Nat \ {0}
  BY <1>1 DEF Inv, Types
<1>3. Skipped(page) \in Nat
  BY <1>2, SkippedNext
<1> QED
  BY <1>2, <1>3, ListPagesAssumption DEF LastLink, AtRequest

LEMMA WalkEndsClosed ==
  ASSUME GapOnly, Closed(known[Here]), pc # "idle", NextList, known' = known
  PROVE  GapOnly'
<1>1. \A i \in 1..Len(List) : Closed(known[List[i]])
  BY DEF GapOnly, OthersClosed, Here
<1>2. pc' = "idle" \/ (pc' = "fetch" /\ page' = 1)
  BY DEF NextList, Begin, Stopped
<1> QED
  BY <1>1, <1>2, BetweenWalks

LEMMA PublishGap ==
  ASSUME Inv, GapOnly, NEW l \in Lists, Publish(l)
  PROVE  GapOnly'
<1>1. UNCHANGED <<known, pc, at, page, links, more, getNext, checkAll>> /\ Here' = Here
  BY DEF Publish, walk, Here
<1>2. pc # "idle" => AtRequest' = AtRequest /\ LastLink' = LastLink
  BY PublishInv
<1>3. OthersClosed'
  BY <1>1 DEF GapOnly, OthersClosed
<1>4. FetchGap'
  BY <1>1, <1>2 DEF GapOnly, FetchGap, Skipped
<1>5. LinkGap'
  BY <1>1, <1>2 DEF GapOnly, LinkGap, Gap
<1>6. PageGap'
  BY <1>1, <1>2 DEF GapOnly, PageGap
<1> QED
  BY <1>3, <1>4, <1>5, <1>6 DEF GapOnly

(* The page fetched reaches down to the gap: with fewer than PageSize new  *)
(* transcripts since the last request, it is not pushed past it.           *)
LEMMA FetchKeepsGap ==
  ASSUME MaxBetween < PageSize, Inv, GapOnly, Fetch
  PROVE  GapOnly'
<1>0. Types /\ PageInHand
  BY DEF Inv
<1>1. /\ pc = "fetch" /\ pc' = "link" /\ UNCHANGED <<known, at>>
  BY DEF Fetch
<1> DEFINE top == published[Here] - Skipped(page)
<1>2. /\ Types' /\ PageInHand' /\ Here' = Here /\ Here \in Lists /\ links'[1] = top
      /\ LastLink' = IF more' THEN top - PageSize + 1 ELSE 1
  BY Fetched
<1>3. /\ page \in Nat \ {0} /\ published[Here] \in Nat /\ between \in 0..MaxBetween
      /\ known[Here] \subseteq Nat \ {0}
  BY <1>0, <1>2 DEF Types
<1>4. Skipped(page) \in Nat /\ top \in Int /\ PageSize \in Nat \ {0} /\ MaxBetween \in Nat
  <2>1. Skipped(page) \in Nat
    BY <1>3, SkippedNext
  <2> QED
    BY <1>3, <2>1, ListPagesAssumption
<1>5. LastLink' >= 1 /\ LastLink' \in Int /\ LastLink' <= top
  <2>1. LastLink' \in Int
    BY <1>2, <1>4
  <2>2. /\ LastLink' >= 1 /\ Len(links') > 0 /\ Len(links') \in Nat
        /\ links'[1] = LastLink' + Len(links') - 1
    BY <1>1, <1>2 DEF PageInHand, Types
  <2> QED
    BY <1>2, <2>1, <2>2
<1> DEFINE f == AtRequest - Skipped(page)
<1>6. f \in Int /\ f = top - between
  BY <1>3, <1>4 DEF AtRequest
<1> HIDE DEF top, f
<1>7. PICK g \in Nat : /\ ClosedFrom(known[Here], g) /\ LastLink' <= g /\ g <= top
                       /\ (g + 1)..top \subseteq known[Here]
  <2>1. CASE page = 1
    <3>1. Closed(known[Here])
      BY <1>0, <1>1, <2>1 DEF GapOnly, OthersClosed, Types, Here
    <3>2. LastLink' <= top /\ top \in Nat
      BY <1>2, <1>4, <1>5
    <3>3. ClosedFrom(known[Here], top)
      <4> SUFFICES ASSUME NEW i \in known[Here]
                   PROVE  IF i <= top THEN 1..i \subseteq known[Here]
                          ELSE (top + 1)..i \subseteq known[Here]
        BY DEF ClosedFrom
      <4>1. 1..i \subseteq known[Here] /\ i \in Nat
        BY <1>3, <3>1 DEF Closed
      <4>2. (top + 1)..i \subseteq 1..i
        BY <3>2, <4>1
      <4> QED
        BY <4>1, <4>2
    <3>4. (top + 1)..top = {}
      BY <3>2
    <3> QED
      BY <3>2, <3>3, <3>4
  <2>2. CASE page > 1
    <3>1. ClosedFrom(known[Here], f) /\ (f + 1)..(f + PageSize) \subseteq known[Here]
      BY <1>1, <2>2 DEF GapOnly, FetchGap, f
    <3>2. f >= 1
      BY <1>0, <1>1, <2>2 DEF PageInHand, f
    <3>3. f <= top /\ top < f + PageSize
      BY <1>3, <1>4, <1>6
    <3>4. LastLink' <= f
      BY <1>2, <1>4, <1>6, <3>2, <3>3
    <3>5. (f + 1)..top \subseteq (f + 1)..(f + PageSize)
      BY <1>4, <1>6, <3>3
    <3>6. f \in Nat
      BY <1>6, <3>2
    <3> QED
      BY <3>1, <3>3, <3>4, <3>5, <3>6
  <2> QED
    BY <1>3, <2>1, <2>2
<1>8. Gap(g)'
  BY <1>1, <1>2, <1>7 DEF Gap, ClosedFrom
<1>9. more' => (links'[1] + 1)..(LastLink' + PageSize - 1) = {}
  BY <1>2, <1>4
<1>10. LinkGap'
  BY <1>8, <1>9 DEF LinkGap
<1>11. OthersClosed'
  BY <1>1 DEF GapOnly, OthersClosed
<1> QED
  BY <1>1, <1>10, <1>11 DEF GapOnly, FetchGap, PageGap

(* A link above the gap is known already; the link at its top closes it by *)
(* one.                                                                    *)
LEMMA LinkKeepsGap ==
  ASSUME Inv, GapOnly, Link
  PROVE  GapOnly'
<1> DEFINE h == links[1]
           S == known[Here]
           T == known'[Here]
<1>1. /\ pc = "link" /\ links # <<>> /\ links \in Seq(Int) /\ pc' \in {"link", "decide"}
      /\ UNCHANGED <<at, page, more>>
      /\ S \subseteq Nat \ {0} /\ PageSize \in Nat \ {0}
  <2>1. Here \in Lists /\ Types
    BY Linked DEF Inv
  <2> QED
    BY <2>1, ListPagesAssumption DEF Link, Types
<1>2. /\ Here \in Lists /\ Here' = Here /\ LastLink' = LastLink
      /\ h \in Nat \ {0} /\ LastLink \in Int /\ LastLink <= h
      /\ T = S \cup {h}
      /\ \A l \in Lists \ {Here} : known'[l] = known[l]
      /\ \/ pc' = "decide" /\ h = LastLink
         \/ pc' = "link" /\ h > LastLink /\ links'[1] = h - 1
  BY Linked
<1>3. ~getNext' => h \in S
  <2>1. Head(links) = h
    BY <1>1
  <2> QED
    BY <2>1 DEF Link, Exists, Here
<1>4. PICK f \in Nat : ClosedFrom(S, f) /\ LastLink <= f /\ f <= h /\ (f + 1)..h \subseteq S
  BY <1>1 DEF GapOnly, LinkGap, Gap
<1>5. more => (h + 1)..(LastLink + PageSize - 1) \subseteq S
  BY <1>1 DEF GapOnly, LinkGap
<1> HIDE DEF h, S, T
<1>6. more => h..(LastLink + PageSize - 1) \subseteq T
  <2>1. \A i \in h..(LastLink + PageSize - 1) :
           i = h \/ i \in (h + 1)..(LastLink + PageSize - 1)
    BY <1>1, <1>2
  <2> QED
    BY <1>2, <1>5, <2>1
<1>7. OthersClosed'
  <2> SUFFICES ASSUME NEW i \in 1..Len(List), i # at
               PROVE  Closed(known'[List[i]])
    BY <1>1, <1>2 DEF OthersClosed
  <2>1. List[i] # Here /\ List[i] \in Lists
    BY ListsDiffer, ListsListed DEF Inv, Types, Here
  <2>2. Closed(known[List[i]])
    BY DEF GapOnly, OthersClosed
  <2> QED
    BY <1>2, <2>1, <2>2
<1>8. CASE h > f
  <2>1. h \in (f + 1)..h
    BY <1>2, <1>8
  <2>2. T = S /\ pc' = "link" /\ links'[1] = h - 1
    BY <1>2, <1>4, <1>8, <2>1
  <2>3. f <= h - 1 /\ (f + 1)..(h - 1) \subseteq (f + 1)..h /\ (h - 1) + 1 = h
    BY <1>2, <1>8
  <2>4. Gap(f)'
    BY <1>2, <1>4, <2>2, <2>3 DEF Gap, ClosedFrom, T, S
  <2>5. LinkGap'
    BY <1>1, <1>2, <1>6, <2>2, <2>3, <2>4 DEF LinkGap, T
  <2> QED
    BY <1>7, <2>2, <2>5 DEF GapOnly, FetchGap, PageGap
<1>9. CASE h = f
  <2>1. ClosedFrom(T, f - 1)
    <3> SUFFICES ASSUME NEW i \in T
                 PROVE  IF i <= f - 1 THEN 1..i \subseteq T ELSE ((f - 1) + 1)..i \subseteq T
      BY DEF ClosedFrom
    <3>1. i \in Nat \ {0}
      BY <1>1, <1>2
    <3>2. CASE i <= f - 1
      BY <1>2, <1>4, <1>9, <3>1, <3>2 DEF ClosedFrom
    <3>3. CASE i = f
      BY <1>2, <1>9, <3>3
    <3>4. CASE i > f
      <4>1. (f + 1)..i \subseteq S
        BY <1>2, <1>4, <1>9, <3>1, <3>4 DEF ClosedFrom
      <4>2. \A j \in ((f - 1) + 1)..i : j = f \/ j \in (f + 1)..i
        BY <3>1
      <4> QED
        BY <1>2, <1>9, <3>1, <3>4, <4>1, <4>2
    <3> QED
      BY <3>1, <3>2, <3>3, <3>4
  <2>2. CASE pc' = "link"
    <3>1. f - 1 \in Nat /\ LastLink <= f - 1 /\ links'[1] = f - 1 /\ (f - 1) + 1 = h
      BY <1>2, <1>9, <2>2
    <3>2. ((f - 1) + 1)..(f - 1) = {}
      OBVIOUS
    <3>3. Gap(f - 1)'
      BY <1>2, <2>1, <3>1, <3>2 DEF Gap, ClosedFrom, T
    <3>4. LinkGap'
      BY <1>1, <1>2, <1>6, <3>1, <3>3 DEF LinkGap, T
    <3> QED
      BY <1>7, <2>2, <3>4 DEF GapOnly, FetchGap, PageGap
  <2>3. CASE pc' = "decide"
    <3>1. h = LastLink
      BY <1>2, <2>3
    <3>2. ~getNext' => 1..LastLink \subseteq T
      <4>1. h \in S => 1..h \subseteq S
        BY <1>2, <1>4, <1>9 DEF ClosedFrom
      <4> QED
        BY <1>2, <1>3, <3>1, <4>1
    <3>3. PageGap'
      BY <1>1, <1>2, <1>6, <1>9, <2>1, <3>1, <3>2 DEF PageGap, ClosedFrom, T
    <3> QED
      BY <1>7, <2>3, <3>3 DEF GapOnly, FetchGap, LinkGap
  <2> QED
    BY <1>1, <2>2, <2>3
<1> QED
  BY <1>2, <1>4, <1>8, <1>9

(* After a page the crawler goes on below it, or has reached transcripts   *)
(* it knows, and everything older with them.                               *)
LEMMA DecideKeepsGap ==
  ASSUME Inv, GapOnly, Decide
  PROVE  GapOnly'
<1>0. Types /\ PageInHand
  BY DEF Inv
<1>1. pc = "decide" /\ known' = known
  BY DEF Decide
<1> DEFINE S == known[Here]
<1>2. /\ ClosedFrom(S, LastLink - 1)
      /\ ~getNext => 1..LastLink \subseteq S
      /\ more => LastLink..(LastLink + PageSize - 1) \subseteq S
  BY <1>1 DEF GapOnly, PageGap
<1>3. CASE Continue /\ more
  <2>1. /\ Here' = Here /\ page' > 1 /\ pc' = "fetch" /\ at' = at
        /\ AtRequest' - Skipped(page') = LastLink - 1
        /\ LastLink \in Nat /\ PageSize \in Nat
    BY <1>3, GoesOn, ListPagesAssumption DEF Decide
  <2>2. (LastLink - 1) + 1 = LastLink /\ (LastLink - 1) + PageSize = LastLink + PageSize - 1
    BY <2>1
  <2>3. (AtRequest - Skipped(page))' = LastLink - 1
    BY <2>1 DEF Skipped
  <2>4. FetchGap'
    BY <1>1, <1>2, <1>3, <2>1, <2>2, <2>3 DEF FetchGap, ClosedFrom
  <2>5. OthersClosed'
    BY <1>1, <2>1 DEF GapOnly, OthersClosed
  <2> QED
    BY <2>1, <2>4, <2>5 DEF GapOnly, LinkGap, PageGap
<1>4. CASE ~(Continue /\ more)
  <2>1. NextList
    BY <1>4 DEF Decide
  <2>2. S \subseteq Nat \ {0}
    BY <1>0, ListsListed DEF Types, Here
  <2>3. Closed(S)
    <3> SUFFICES ASSUME NEW i \in S
                 PROVE  1..i \subseteq S
      BY DEF Closed
    <3>1. i \in Nat \ {0}
      BY <2>2
    <3>2. CASE ~more
      <4>1. LastLink = 1 /\ 1 - 1 = 0 /\ 0 + 1 = 1
        BY <3>2 DEF LastLink
      <4>2. IF i <= 0 THEN 1..i \subseteq S ELSE (0 + 1)..i \subseteq S
        BY <1>2, <4>1 DEF ClosedFrom
      <4> QED
        BY <4>1, <4>2
    <3>3. CASE more
      <4>1. 1..LastLink \subseteq S
        BY <1>2, <1>4, <3>3 DEF Continue
      <4>2. LastLink \in Int
        BY <1>1, LastLinkInt
      <4>3. CASE i <= LastLink - 1
        BY <1>2, <4>3 DEF ClosedFrom
      <4>4. CASE ~(i <= LastLink - 1)
        <5>1. ((LastLink - 1) + 1)..i \subseteq S
          BY <1>2, <4>4 DEF ClosedFrom
        <5>2. \A j \in 1..i : j \in 1..LastLink \/ j \in ((LastLink - 1) + 1)..i
          BY <3>1, <4>2
        <5> QED
          BY <4>1, <5>1, <5>2
      <4> QED
        BY <4>3, <4>4
    <3> QED
      BY <3>2, <3>3
  <2> QED
    BY <1>1, <2>1, <2>3, WalkEndsClosed
<1> QED
  BY <1>3, <1>4

LEMMA NextGap ==
  ASSUME MaxBetween < PageSize, Inv, aborts = 0 => GapOnly, [Next]_vars
  PROVE  (aborts = 0 => GapOnly)'
<1> SUFFICES ASSUME aborts' = 0
             PROVE  GapOnly'
  OBVIOUS
<1>1. CASE \E l \in Lists : Publish(l)
  <2>1. PICK l \in Lists : Publish(l)
    BY <1>1
  <2> QED
    BY <2>1, PublishGap DEF Publish
<1>2. CASE \E all \in BOOLEAN : StartCrawl(all)
  <2>1. pc = "idle" /\ known' = known /\ aborts' = aborts /\ pc' = "fetch" /\ page' = 1
    BY <1>2 DEF StartCrawl, Begin
  <2> QED
    BY <2>1, BetweenWalks DEF GapOnly, OthersClosed
<1>3. CASE Fetch
  BY <1>3, FetchKeepsGap DEF Fetch
<1>4. CASE FetchEmpty
  <2>1. GapOnly /\ pc = "fetch" /\ page = 1 /\ NextList /\ known' = known
    BY <1>4, EmptyFirst DEF FetchEmpty
  <2>2. Closed(known[Here])
    BY <2>1 DEF GapOnly, OthersClosed, Inv, Types, Here
  <2> QED
    BY <2>1, <2>2, WalkEndsClosed
<1>5. CASE Link
  BY <1>5, LinkKeepsGap DEF Link
<1>6. CASE Decide
  BY <1>6, DecideKeepsGap DEF Decide
<1>7. CASE Abort
  BY <1>7 DEF Abort, Inv, Types
<1>8. CASE UNCHANGED vars
  BY <1>8 DEF vars, walk, GapOnly, OthersClosed, FetchGap, LinkGap, PageGap, Gap,
              LastLink, AtRequest, Skipped, Here
<1> QED
  BY <1>1, <1>2, <1>3, <1>4, <1>5, <1>6, <1>7, <1>8 DEF Next

(* Without aborts, and with fewer new transcripts between two requests     *)
(* than a page has links, the crawler leaves no hole.  This is what allows *)
(* it to stop at the first page whose last link it knows.                  *)
THEOREM LeavesNoHole == ASSUME MaxBetween < PageSize
                        PROVE  Spec => []NoHole
<1>1. Init => (aborts = 0 => GapOnly)
  BY BetweenInit
<1>2. Inv /\ (aborts = 0 => GapOnly) /\ [Next]_vars => (aborts = 0 => GapOnly)'
  BY NextGap
<1>3. (aborts = 0 => GapOnly) => NoHole
  <2> SUFFICES ASSUME GapOnly, pc = "idle", NEW l \in Lists
               PROVE  Closed(known[l])
    BY DEF NoHole, Closed
  <2>1. PICK i \in 1..Len(List) : List[i] = l
    BY ListPagesAssumption DEF Lists, Range
  <2> QED
    BY <2>1 DEF GapOnly, OthersClosed
<1> QED
  BY <1>1, <1>2, <1>3, Invariance, PTL DEF Spec

-----------------------------------------------------------------------------
(* Type correctness: the pages asked for exist, and only links of the list *)
(* are followed and stored.                                                *)
Bounded ==
    /\ \A l \in Lists : published[l] \in 0..MaxPublished /\ known[l] \subseteq 1..published[l]
    /\ atStart \in 0..MaxPublished /\ aborts \in 0..MaxAborts
    /\ pc = "idle" => page = 1
    /\ page > 1 => AtRequest - Skipped(page) >= 1
    /\ pc # "link" => links = <<>>
    /\ pc = "link" => links[1] <= AtRequest - Skipped(page)

(* A list long enough for a link on page k has at least k pages.           *)
LEMMA PageExists ==
  ASSUME NEW k \in Nat \ {0}, NEW n \in Nat, n - Skipped(k) >= 1
  PROVE  k \in 1..Pages(n)
<1> DEFINE q == Pages(n)
<1>1. PageSize \in Nat \ {0} /\ k - 1 \in Int
  BY ListPagesAssumption
<1>2. n + PageSize - 1 \in Nat
  BY <1>1
<1>3. q \in Int /\ n + PageSize - 1 < PageSize * q + PageSize
  BY <1>1, <1>2 DEF Pages
<1> HIDE DEF q
<1>4. (k - 1) * PageSize <= n - 1 /\ (k - 1) * PageSize \in Int
  BY <1>1 DEF Skipped
<1>5. PageSize * q \in Int /\ PageSize * q = q * PageSize
  BY <1>1, <1>3
<1>6. (k - 1) * PageSize < q * PageSize
  BY <1>1, <1>3, <1>4, <1>5
<1>7. k - 1 < q
  <2> SUFFICES ASSUME q <= k - 1
               PROVE  FALSE
    BY <1>1, <1>3
  <2>1. k - 1 - q \in Nat
    BY <1>1, <1>3
  <2>2. (k - 1 - q) * PageSize >= 0
    BY <1>1, <2>1
  <2>3. (k - 1 - q) * PageSize = (k - 1) * PageSize - q * PageSize
    BY <1>1, <1>3
  <2> QED
    BY <1>4, <1>5, <1>6, <2>2, <2>3
<1> QED
  BY <1>1, <1>3, <1>7 DEF q

LEMMA StartBounded ==
  ASSUME Inv, Bounded, NEW i \in 1..Len(List), Begin(i), UNCHANGED <<published, known, aborts>>
  PROVE  Bounded'
<1>1. List[i] \in Lists
  BY ListsListed
<1>2. page' = 1 /\ ~(1 > 1)
  BY DEF Begin
<1> QED
  BY <1>1, <1>2 DEF Bounded, Begin

LEMMA StopBounded ==
  ASSUME Inv, Bounded, Stopped, UNCHANGED <<published, known>>, aborts' \in 0..MaxAborts
  PROVE  Bounded'
<1>1. 0 \in 0..MaxPublished /\ ~(1 > 1)
  BY ListPagesAssumption
<1> QED
  BY <1>1 DEF Bounded, Stopped

LEMMA NextListBounded ==
  ASSUME Inv, Bounded, NextList, UNCHANGED <<published, known, aborts>>
  PROVE  Bounded'
<1>1. at \in 1..Len(List) /\ Len(List) \in Nat
  BY ListPagesAssumption DEF Inv, Types
<1>2. CASE at < Len(List)
  <2>1. at + 1 \in 1..Len(List) /\ Begin(at + 1)
    BY <1>1, <1>2 DEF NextList
  <2> QED
    BY <2>1, StartBounded
<1>3. CASE ~(at < Len(List))
  <2>1. aborts' \in 0..MaxAborts
    BY DEF Bounded
  <2> QED
    BY <1>3, <2>1, StopBounded DEF NextList
<1> QED
  BY <1>2, <1>3

LEMMA PublishBounded ==
  ASSUME Inv, Bounded, NEW l \in Lists, Publish(l)
  PROVE  Bounded'
<1>1. /\ published' = [published EXCEPT ![l] = published[l] + 1] /\ published[l] < MaxPublished
      /\ UNCHANGED <<known, pc, page, links, atStart, aborts>>
  BY DEF Publish, walk
<1>2. \A k \in Lists : published'[k] \in 0..MaxPublished /\ known'[k] \subseteq 1..published'[k]
  <2> SUFFICES ASSUME NEW k \in Lists
               PROVE  published'[k] \in 0..MaxPublished /\ known'[k] \subseteq 1..published'[k]
    OBVIOUS
  <2>1. published[k] \in 0..MaxPublished /\ known[k] \subseteq 1..published[k]
    BY DEF Bounded
  <2>2. published'[k] = published[k] \/ (k = l /\ published'[k] = published[k] + 1)
    BY <1>1 DEF Inv, Types
  <2> QED
    BY <1>1, <2>1, <2>2, ListPagesAssumption
<1>3. pc # "idle" => AtRequest' = AtRequest
  BY PublishInv
<1> QED
  BY <1>1, <1>2, <1>3 DEF Bounded, Skipped

LEMMA FetchBounded ==
  ASSUME Inv, Bounded, Fetch
  PROVE  Bounded'
<1>1. /\ pc' = "link" /\ between' = 0
      /\ UNCHANGED <<published, known, at, page, atStart, aborts>>
  BY DEF Fetch
<1>2. /\ Here \in Lists /\ Here' = Here /\ Types' /\ PageInHand'
      /\ links'[1] = published[Here] - Skipped(page)
  BY Fetched
<1>3. published[Here] \in Nat /\ page \in Nat \ {0}
  BY <1>2 DEF Inv, Types
<1>4. AtRequest' = published[Here] - 0
  BY <1>1, <1>2 DEF AtRequest
<1>5. Skipped(page) \in Nat /\ Skipped(page') = Skipped(page)
  BY <1>1, <1>3, SkippedNext
<1>6. links'[1] = AtRequest' - Skipped(page')
  BY <1>2, <1>3, <1>4, <1>5
<1>7. /\ LastLink' >= 1 /\ Len(links') > 0 /\ Len(links') \in Nat
      /\ links'[1] = LastLink' + Len(links') - 1
  BY <1>1, <1>2 DEF PageInHand, Types
<1>8. LastLink' \in Int
  <2>1. LastLink' = IF more' THEN published[Here] - Skipped(page) - PageSize + 1 ELSE 1
    BY Fetched
  <2> QED
    BY <1>3, <1>5, <2>1, ListPagesAssumption
<1>9. links'[1] >= 1 /\ links'[1] \in Int
  BY <1>7, <1>8
<1> QED
  BY <1>1, <1>6, <1>9 DEF Bounded, Skipped

LEMMA LinkBounded ==
  ASSUME Inv, Bounded, Link
  PROVE  Bounded'
<1>1. /\ pc = "link" /\ links' = Tail(links) /\ Here' = Here /\ Here \in Lists
      /\ pc' = IF Len(links) = 1 THEN "decide" ELSE "link"
      /\ UNCHANGED <<published, at, page, between, atStart, aborts>>
  BY Linked DEF Link
<1>2. AtRequest' = AtRequest /\ Skipped(page') = Skipped(page)
  BY <1>1 DEF AtRequest
<1>3. /\ links[1] \in Nat \ {0} /\ known'[Here] = known[Here] \cup {links[1]}
      /\ \A l \in Lists \ {Here} : known'[l] = known[l]
  BY Linked
<1>4. links[1] <= AtRequest - Skipped(page)
  BY <1>1 DEF Bounded
<1>5. published[Here] \in Nat /\ between \in 0..MaxBetween /\ page \in Nat \ {0}
  BY <1>1 DEF Inv, Types
<1>6. Skipped(page) \in Nat
  BY <1>5, SkippedNext
<1>7. AtRequest - Skipped(page) <= published[Here] /\ AtRequest - Skipped(page) \in Int
  BY <1>5, <1>6, ListPagesAssumption DEF AtRequest
<1>8. links[1] \in 1..published[Here]
  BY <1>3, <1>4, <1>5, <1>7
<1>9. \A l \in Lists : published'[l] \in 0..MaxPublished /\ known'[l] \subseteq 1..published'[l]
  BY <1>1, <1>3, <1>8 DEF Bounded
<1>10. pc' # "link" => links' = <<>>
  BY <1>1 DEF Inv, Types
<1>11. pc' = "link" => links'[1] <= AtRequest - Skipped(page)
  <2>1. pc' = "link" => links'[1] = links[1] - 1
    BY Linked
  <2> QED
    BY <1>3, <1>4, <1>7, <2>1
<1> QED
  BY <1>1, <1>2, <1>9, <1>10, <1>11 DEF Bounded, Skipped

LEMMA DecideBounded ==
  ASSUME Inv, Bounded, Decide
  PROVE  Bounded'
<1>1. CASE Continue /\ more
  <2>1. /\ AtRequest' - Skipped(page') = LastLink - 1 /\ LastLink \in Nat /\ LastLink >= 2
        /\ pc' = "fetch"
    BY <1>1, GoesOn
  <2>2. links = <<>> /\ UNCHANGED <<published, known, links, atStart, aborts>>
    BY <1>1 DEF Decide, Bounded
  <2> QED
    BY <2>1, <2>2 DEF Bounded, Skipped
<1>2. CASE ~(Continue /\ more)
  BY <1>2, NextListBounded DEF Decide
<1> QED
  BY <1>1, <1>2

LEMMA NextBounded ==
  ASSUME Inv, Bounded, [Next]_vars
  PROVE  Bounded'
<1>1. CASE \E all \in BOOLEAN : StartCrawl(all)
  <2>1. 1 \in 1..Len(List)
    BY ListPagesAssumption
  <2> QED
    BY <1>1, <2>1, StartBounded DEF StartCrawl
<1>2. CASE FetchEmpty
  BY <1>2, NextListBounded DEF FetchEmpty
<1>3. CASE Abort
  <2>1. aborts' \in 0..MaxAborts
    BY <1>3, ListPagesAssumption DEF Abort, Bounded
  <2> QED
    BY <1>3, <2>1, StopBounded DEF Abort
<1>4. CASE UNCHANGED vars
  BY <1>4 DEF vars, walk, Bounded, AtRequest, Skipped, Here
<1> QED
  BY <1>1, <1>2, <1>3, <1>4, PublishBounded, FetchBounded, LinkBounded, DecideBounded DEF Next

(* Every variable stays in its set: a transcript of a list gets a Source   *)
(* only after it was published there, and no page is asked for that the    *)
(* list does not have.                                                     *)
THEOREM TypeCorrect == Spec => []TypeOK
<1>1. Init => Bounded
  <2>1. 0 \in 0..MaxPublished /\ 0 \in 0..MaxAborts /\ ~(1 > 1)
    BY ListPagesAssumption
  <2> QED
    BY <2>1 DEF Init, Bounded
<1>2. Inv /\ Bounded /\ [Next]_vars => Bounded'
  BY NextBounded
<1>3. Inv /\ Bounded => TypeOK
  <2> SUFFICES ASSUME Inv, Bounded
               PROVE  TypeOK
    OBVIOUS
  <2>1. Here \in Lists /\ published[Here] \in Nat /\ between \in 0..MaxBetween
    BY ListsListed DEF Inv, Types, Here
  <2>2. page \in Nat \ {0} /\ Skipped(page) \in Nat
    BY SkippedNext DEF Inv, Types
  <2>3. AtRequest - Skipped(page) <= published[Here] - Skipped(page) /\ AtRequest \in Int
    BY <2>1, <2>2, ListPagesAssumption DEF AtRequest
  <2>4. page \in 1..Pages(published[Here]) \cup {1}
    <3>1. CASE page > 1
      <4>1. published[Here] - Skipped(page) >= 1
        BY <2>1, <2>2, <2>3, <3>1 DEF Bounded
      <4> QED
        BY <2>1, <2>2, <4>1, PageExists
    <3>2. CASE ~(page > 1)
      BY <2>2, <3>2
    <3> QED
      BY <3>1, <3>2
  <2>5. Range(links) \subseteq 1..published[Here]
    <3>1. links \in Seq(Int)
      BY DEF Inv, Types
    <3> SUFFICES ASSUME NEW i \in 1..Len(links)
                 PROVE  links[i] \in 1..published[Here]
      BY <3>1 DEF Range
    <3>2. pc = "link" /\ Len(links) \in Nat /\ Len(links) > 0
      BY <3>1 DEF Bounded
    <3>3. /\ links[1] <= AtRequest - Skipped(page) /\ LastLink >= 1
          /\ links[i] = LastLink + Len(links) - i
          /\ links[1] = LastLink + Len(links) - 1
      BY <3>2 DEF Inv, PageInHand, Bounded
    <3>4. LastLink \in Int
      BY LastLinkInt
    <3> QED
      BY <2>1, <2>2, <2>3, <3>2, <3>3, <3>4
  <2>6. /\ \A l \in Lists : published[l] \in 0..MaxPublished
        /\ published \in [Lists -> 0..MaxPublished]
    BY DEF Inv, Types, Bounded
  <2> QED
    BY <2>4, <2>5, <2>6 DEF TypeOK, Inv, Types, Bounded, Here
<1> QED
  BY <1>1, <1>2, <1>3, Invariance, PTL DEF Spec

-----------------------------------------------------------------------------
(* The last steps of the same command, SayItQuestions, for any number of   *)
(* questions, exceptions and kills.                                        *)

(* What the steps of the import have established about the row in hand and *)
(* about those that are left.                                              *)
ImportInHand ==
    /\ stage \notin {"markQuestion", "markAnswer"} => cur = None
    /\ stage \in {"markQuestion", "markAnswer"} => cur \in asked \ todo /\ section[cur] # <<>>
    /\ stage \in {"questions", "markQuestion"} => todo \cap questionIn = {} /\ cur \notin questionIn
    /\ stage \in {"answers", "markAnswer"} => todo \subseteq answered \ answerIn /\ cur \notin answerIn
    /\ stage = "markAnswer" => cur \in answered

ImportInv == SayItTypeOK /\ ImportInHand

(* Undisturbed, an answer has a file only if its question has, and answers *)
(* are imported when all questions that have a file are.                   *)
ImportClean ==
    errors = 0 /\ failures = 0 =>
        /\ \A q \in Question : answerJson[q] = "whole" => questionJson[q] = "whole"
        /\ answerIn \subseteq questionIn
        /\ stage \in {"questions", "markQuestion"} =>
             \A q \in asked \ (todo \cup {cur}) : questionJson[q] = "whole" => q \in questionIn
        /\ stage \in {"answers", "markAnswer"} =>
             \A q \in asked : questionJson[q] = "whole" => q \in questionIn
        /\ stage = "markAnswer" => cur \in questionIn
        /\ \A q \in Question :
             section[q] = IF q = cur /\ stage = "markQuestion" THEN <<"question">>
                          ELSE IF q \in answerIn \/ (q = cur /\ stage = "markAnswer")
                            THEN Append(<<"question">>, "answer")
                          ELSE IF q \in questionIn THEN <<"question">> ELSE <<>>

(* One question for the mark, set or about to be set, and one more for     *)
(* each mishap.                                                            *)
QuestionsCounted ==
    \A q \in Question :
        Number(q, "question") <= errors + failures
            + (IF q \in questionIn \/ (stage = "markQuestion" /\ q = cur) THEN 1 ELSE 0)

AnswersCounted ==
    \A q \in Question :
        section[q] # <<>> /\ Head(section[q]) = "question" => Number(q, "answer") <= 1

-----------------------------------------------------------------------------
(* A speech added to one section leaves the others, and empties none.      *)
LEMMA OneSection ==
  ASSUME section \in [Question -> Seq(Speech)], NEW q \in Question, NEW s \in Seq(Speech) \ {<<>>},
         section' \in {section, [section EXCEPT ![q] = s]}
  PROVE  /\ section' \in [Question -> Seq(Speech)]
         /\ \A r \in Question : section[r] # <<>> => section'[r] # <<>>
<1>1. CASE section' = section
  BY <1>1
<1>2. CASE section' = [section EXCEPT ![q] = s]
  <2>1. section'[q] = s /\ \A r \in Question \ {q} : section'[r] = section[r]
    BY <1>2
  <2>2. section' \in [Question -> Seq(Speech)]
    BY <1>2
  <2> QED
    BY <2>1, <2>2
<1> QED
  BY <1>1, <1>2

(* What the two imports do to the sections, whether they fail or not.      *)
LEMMA ImportSections ==
  ASSUME NEW q \in Question
  PROVE  /\ ImportQuestion(q) \/ ImportQuestionFails(q)
              => section' \in {section, [section EXCEPT ![q] = Append(section[q], "question")]}
         /\ ImportAnswer(q) \/ ImportAnswerFails(q)
              => section' \in {section, [section EXCEPT ![q] = WithAnswer(section[q])]}
<1>1. ImportQuestion(q) \/ ImportQuestionFails(q)
        => section' \in {section, [section EXCEPT ![q] = Append(section[q], "question")]}
  BY DEF ImportQuestion, ImportQuestionFails
<1>2. ImportAnswer(q) \/ ImportAnswerFails(q)
        => section' \in {section, [section EXCEPT ![q] = WithAnswer(section[q])]}
  BY DEF ImportAnswer, ImportAnswerFails
<1> QED
  BY <1>1, <1>2

LEMMA ImportNextInv ==
  ASSUME SayItAssumption, ImportInv, [SayItNext]_sayItVars
  PROVE  ImportInv'
<1> USE DEF ImportInv, SayItTypeOK, ImportInHand, rows, files, marks, Goto, SayItStopped
<1>0. section \in [Question -> Seq(Speech)] /\ "question" \in Speech /\ "answer" \in Speech
  BY DEF Speech
<1>1. CASE \E q \in Question : Ask(q) \/ Answer(q) \/ DeletePaper(q)
  BY <1>1 DEF SayItAssumption, Ask, Answer, DeletePaper
<1>2. CASE StartRun \/ StartImport \/ SaveDone \/ QuestionsDone \/ AnswersDone
  BY <1>2
  DEF StartRun, StartImport, SaveDone, QuestionsDone, AnswersDone, SayItAssumption
<1>3. ASSUME NEW q \in Question, Save(q)
      PROVE  ImportInv'
  <2>1. questionJson' \in [Question -> File] /\ answerJson' \in [Question -> File]
    BY <1>3 DEF Save, File
  <2> QED
    BY <1>3, <2>1 DEF Save
<1>10. CASE \E q \in Question : SaveRefused(q)
  BY <1>10 DEF SaveRefused
<1>4. CASE MarkQuestion \/ MarkAnswer
  BY <1>4 DEF MarkQuestion, MarkAnswer, SayItAssumption
<1>5. ASSUME NEW q \in Question, ImportQuestion(q) \/ ImportQuestionFails(q)
      PROVE  ImportInv'
  <2>1. Append(section[q], "question") \in Seq(Speech) \ {<<>>}
    BY <1>0, AppendProperties
  <2>2. /\ section' \in [Question -> Seq(Speech)]
        /\ \A r \in Question : section[r] # <<>> => section'[r] # <<>>
    <3> HIDE DEF rows, files, marks, Goto, SayItStopped, ImportInv, SayItTypeOK, ImportInHand
    <3>1. section' \in {section, [section EXCEPT ![q] = Append(section[q], "question")]}
      BY <1>5, ImportSections
    <3> QED
      BY <1>0, <2>1, <3>1, OneSection
  <2>3. stage' = "markQuestion" => section'[cur'] # <<>>
    BY <1>0, <1>5, <2>1 DEF ImportQuestion, ImportQuestionFails
  <2> QED
    BY <1>5, <2>2, <2>3 DEF ImportQuestion, ImportQuestionFails, SayItAssumption
<1>6. ASSUME NEW q \in Question, ImportAnswer(q) \/ ImportAnswerFails(q)
      PROVE  ImportInv'
  <2>1. WithAnswer(section[q]) \in Seq(Speech) \ {<<>>}
    BY <1>0, AppendProperties DEF WithAnswer
  <2>2. /\ section' \in [Question -> Seq(Speech)]
        /\ \A r \in Question : section[r] # <<>> => section'[r] # <<>>
    <3> HIDE DEF rows, files, marks, Goto, SayItStopped, ImportInv, SayItTypeOK, ImportInHand
    <3>1. section' \in {section, [section EXCEPT ![q] = WithAnswer(section[q])]}
      BY <1>6, ImportSections
    <3> QED
      BY <1>0, <2>1, <3>1, OneSection
  <2>3. stage' = "markAnswer" => section'[cur'] # <<>>
    BY <1>0, <1>6, <2>1 DEF ImportAnswer, ImportAnswerFails
  <2> QED
    BY <1>6, <2>2, <2>3 DEF ImportAnswer, ImportAnswerFails, SayItAssumption
<1>7. CASE \E q \in Question : SkipQuestion(q) \/ SkipAnswer(q)
  BY <1>7 DEF SkipQuestion, SkipAnswer
<1>8. ASSUME NEW q \in Question, CrashSaving(q)
      PROVE  ImportInv'
  <2>1. questionJson' \in [Question -> File] /\ answerJson' \in [Question -> File]
    BY <1>8 DEF CrashSaving, File
  <2>2. failures' \in 0..MaxFailures
    BY <1>8 DEF CrashSaving, SayItAssumption
  <2> QED
    BY <1>8, <2>1, <2>2 DEF CrashSaving
<1>11. CASE Crash
  BY <1>11 DEF Crash, SayItAssumption
<1>9. CASE UNCHANGED sayItVars
  BY <1>9 DEF sayItVars
<1> QED
  BY <1>1, <1>2, <1>3, <1>4, <1>5, <1>6, <1>7, <1>8, <1>9, <1>10, <1>11 DEF SayItNext, RunStep

LEMMA ImportNextClean ==
  ASSUME SayItAssumption, ImportInv, ImportClean, [SayItNext]_sayItVars
  PROVE  ImportClean'
<1> USE DEF rows, files, marks, Goto, SayItStopped
<1>0. /\ errors \in Nat /\ failures \in Nat
      /\ section \in [Question -> Seq(Speech)] /\ asked \subseteq Question
      /\ None \notin Question /\ cur \in asked \cup {None} /\ todo \subseteq asked
      /\ questionIn \subseteq asked /\ answered \subseteq asked /\ ImportInHand
      /\ questionJson \in [Question -> File] /\ answerJson \in [Question -> File]
  <2>1. errors \in 0..MaxErrors /\ failures \in 0..MaxFailures
    BY DEF ImportInv, SayItTypeOK
  <2> QED
    BY <2>1 DEF ImportInv, SayItTypeOK, SayItAssumption
<1>a. SUFFICES ASSUME errors' = 0, failures' = 0
               PROVE  ImportClean'
  BY DEF ImportClean
<1>b. errors = 0 /\ failures = 0
  BY <1>0, <1>a
  DEF SayItNext, RunStep, sayItVars, Ask, Answer, DeletePaper, StartRun, StartImport, SaveDone,
      QuestionsDone, AnswersDone, Save, SaveRefused, MarkQuestion, MarkAnswer,
      ImportQuestion, ImportAnswer, SkipQuestion, SkipAnswer, Crash, CrashSaving,
      ImportQuestionFails, ImportAnswerFails
<1> USE <1>0, <1>a, <1>b
<1>1. CASE \E q \in Question : Ask(q) \/ Answer(q) \/ DeletePaper(q)
  BY <1>1 DEF Ask, Answer, DeletePaper, ImportClean, ImportInHand
<1>2. CASE StartRun \/ StartImport \/ SaveDone \/ QuestionsDone \/ AnswersDone
  BY <1>2 DEF StartRun, StartImport, SaveDone, QuestionsDone, AnswersDone, ImportClean, ImportInHand
<1>3. ASSUME NEW q \in Question, Save(q)
      PROVE  ImportClean'
  <2>1. \A r \in Question : answerJson'[r] = "whole" => questionJson'[r] = "whole"
    BY <1>3 DEF Save, ImportClean
  <2>2. stage = "save" /\ stage' = "save" /\ UNCHANGED <<section, questionIn, answerIn, cur>>
    BY <1>3 DEF Save, ImportInHand
  <2> QED
    BY <2>1, <2>2 DEF ImportClean
<1>11. CASE \E q \in Question : SaveRefused(q)
  BY <1>11 DEF SaveRefused, ImportClean, ImportInHand
<1>4. CASE MarkQuestion
  BY <1>4 DEF MarkQuestion, ImportClean, ImportInHand
<1>5. CASE MarkAnswer
  BY <1>5 DEF MarkAnswer, ImportClean, ImportInHand
<1>6. ASSUME NEW q \in Question, ImportQuestion(q)
      PROVE  ImportClean'
  <2>1. q \notin questionIn /\ q \notin answerIn /\ cur = None /\ section[q] = <<>>
    BY <1>6 DEF ImportQuestion, ImportClean, ImportInHand
  <2>2. section' = [section EXCEPT ![q] = <<"question">>]
    BY <1>6, <2>1 DEF ImportQuestion
  <2>3. /\ stage = "questions" /\ stage' = "markQuestion" /\ cur' = q /\ todo' = todo \ {q}
        /\ UNCHANGED <<asked, questionJson, answerJson, questionIn, answerIn>>
    BY <1>6 DEF ImportQuestion
  <2>4. \A r \in Question : section'[r] = IF r = q THEN <<"question">> ELSE section[r]
    BY <2>2
  <2>5. \A r \in asked' \ (todo' \cup {cur'}) : questionJson'[r] = "whole" => r \in questionIn'
    BY <2>1, <2>3 DEF ImportClean
  <2> QED
    BY <2>1, <2>3, <2>4, <2>5 DEF ImportClean
<1>7. ASSUME NEW q \in Question, ImportAnswer(q)
      PROVE  ImportClean'
  <2>1. q \in questionIn /\ q \notin answerIn /\ cur = None /\ section[q] = <<"question">>
    BY <1>7 DEF ImportAnswer, ImportClean, ImportInHand
  <2>2. WithAnswer(section[q]) = Append(<<"question">>, "answer")
    <3>1. Len(<<"question">>) = 1
      OBVIOUS
    <3> QED
      BY <2>1, <3>1 DEF WithAnswer
  <2>3. section' = [section EXCEPT ![q] = Append(<<"question">>, "answer")]
    BY <1>7, <2>2 DEF ImportAnswer
  <2> QED
    BY <1>7, <2>1, <2>3 DEF ImportAnswer, ImportClean, ImportInHand
<1>8. CASE \E q \in Question : SkipQuestion(q) \/ SkipAnswer(q)
  BY <1>8 DEF SkipQuestion, SkipAnswer, ImportClean, ImportInHand
<1>9. CASE \/ Crash
           \/ \E q \in Question : CrashSaving(q) \/ ImportQuestionFails(q) \/ ImportAnswerFails(q)
  BY <1>9 DEF Crash, CrashSaving, ImportQuestionFails, ImportAnswerFails
<1>10. CASE UNCHANGED sayItVars
  BY <1>10 DEF sayItVars, ImportClean
<1> QED
  BY <1>1, <1>2, <1>3, <1>4, <1>5, <1>6, <1>7, <1>8, <1>9, <1>10, <1>11 DEF SayItNext, RunStep

-----------------------------------------------------------------------------
(* The prover takes the operators of an instance for others.               *)
(* How many copies of a speech a section has, before and after it gets one. *)
LEMMA NoSpeech == \A s \in Speech : Copies(<<>>, s) = 0
BY FS_EmptySet DEF Copies

LEMMA SpeechAppended ==
  ASSUME NEW old \in Seq(Speech), NEW added \in Speech, NEW speech \in Speech
  PROVE  /\ Copies(old, speech) \in Nat
         /\ Copies(Append(old, added), speech) = Copies(old, speech) + (IF added = speech THEN 1 ELSE 0)
<1> DEFINE new == Append(old, added)
           Places == {n \in DOMAIN old : old[n] = speech}
           After  == {n \in DOMAIN new : new[n] = speech}
<1>1. /\ Len(old) \in Nat /\ DOMAIN old = 1..Len(old) /\ DOMAIN new = 1..(Len(old) + 1)
      /\ new[Len(old) + 1] = added /\ \A n \in 1..Len(old) : new[n] = old[n]
  BY AppendProperties, LenProperties
<1> HIDE DEF new
<1>2. IsFiniteSet(Places)
  <2>1. Places \subseteq 1..Len(old) /\ IsFiniteSet(1..Len(old))
    BY <1>1, FS_Interval
  <2> QED
    BY <2>1, FS_Subset
<1>3. /\ After = (IF added = speech THEN Places \cup {Len(old) + 1} ELSE Places)
      /\ Len(old) + 1 \notin Places
  BY <1>1
<1> HIDE DEF Places, After
<1>4. /\ Cardinality(Places) \in Nat
      /\ Cardinality(After) = Cardinality(Places) + (IF added = speech THEN 1 ELSE 0)
  BY <1>2, <1>3, FS_AddElement, FS_CardinalityType
<1> QED
  BY <1>4 DEF Places, After, new, Copies

(* A question is added when it has no mark, an answer to fewer than two.   *)
LEMMA NextCounted ==
  ASSUME SayItAssumption, ImportInv, QuestionsCounted, AnswersCounted, [SayItNext]_sayItVars
  PROVE  QuestionsCounted' /\ AnswersCounted'
<1> USE DEF rows, files, marks, Goto, SayItStopped
<1>0. /\ errors \in Nat /\ failures \in Nat /\ section \in [Question -> Seq(Speech)]
      /\ \A q \in Question : Number(q, "question") \in Nat /\ Number(q, "answer") \in Nat
  <2>1. errors \in 0..MaxErrors /\ failures \in 0..MaxFailures /\ section \in [Question -> Seq(Speech)]
    BY DEF ImportInv, SayItTypeOK
  <2>2. "question" \in Speech /\ "answer" \in Speech
    BY DEF Speech
  <2> QED
    BY <2>1, <2>2, SpeechAppended DEF Number, SayItAssumption
<1>1. ASSUME NEW q \in Question, section' = [section EXCEPT ![q] = Append(section[q], "question")]
      PROVE  /\ Number(q, "question")' = Number(q, "question") + 1
             /\ \A r \in Question \ {q} : Number(r, "question")' = Number(r, "question")
             /\ AnswersCounted'
  <2>1. section'[q] = Append(section[q], "question") /\ \A r \in Question \ {q} : section'[r] = section[r]
    BY <1>0, <1>1
  <2>2. Number(q, "question")' = Number(q, "question") + 1 /\ Number(q, "answer")' = Number(q, "answer")
    BY <1>0, <2>1, SpeechAppended DEF Number, Speech
  <2>3. \A r \in Question \ {q} : Number(r, "question")' = Number(r, "question")
                                  /\ Number(r, "answer")' = Number(r, "answer")
    BY <2>1 DEF Number
  <2>4. section[q] # <<>> => Head(section'[q]) = Head(section[q])
    BY <1>0, <2>1
  <2>5. section[q] = <<>> => Number(q, "answer") = 0
    BY NoSpeech DEF Number, Speech
  <2>6. ASSUME NEW r \in Question, section'[r] # <<>>, Head(section'[r]) = "question"
        PROVE  Number(r, "answer")' <= 1
    <3>1. CASE r # q
      BY <2>1, <2>3, <2>6, <3>1 DEF AnswersCounted
    <3>2. CASE r = q /\ section[q] = <<>>
      BY <2>2, <2>5, <3>2
    <3>3. CASE r = q /\ section[q] # <<>>
      BY <2>2, <2>4, <2>6, <3>3 DEF AnswersCounted
    <3> QED
      BY <3>1, <3>2, <3>3
  <2> QED
    BY <2>2, <2>3, <2>6 DEF AnswersCounted
<1>2. ASSUME NEW q \in Question, section' = [section EXCEPT ![q] = WithAnswer(section[q])]
      PROVE  /\ \A r \in Question : Number(r, "question")' = Number(r, "question")
             /\ AnswersCounted'
  <2>1. section'[q] = WithAnswer(section[q]) /\ \A r \in Question \ {q} : section'[r] = section[r]
    BY <1>0, <1>2
  <2>2. \A r \in Question \ {q} : Number(r, "question")' = Number(r, "question")
                                  /\ Number(r, "answer")' = Number(r, "answer")
    BY <2>1 DEF Number
  <2>3. CASE Len(section[q]) >= 2
    BY <2>1, <2>2, <2>3 DEF WithAnswer, Number, AnswersCounted
  <2>4. CASE ~(Len(section[q]) >= 2)
    <3>1. section'[q] = Append(section[q], "answer")
      BY <2>1, <2>4 DEF WithAnswer
    <3>2. Number(q, "question")' = Number(q, "question") /\ Number(q, "answer")' = Number(q, "answer") + 1
      BY <1>0, <3>1, SpeechAppended DEF Number, Speech
    <3>3. section[q] # <<>> /\ Head(section[q]) = "question" => Number(q, "answer") = 0
      <4> SUFFICES ASSUME section[q] # <<>>, Head(section[q]) = "question"
                   PROVE  Number(q, "answer") = 0
        OBVIOUS
      <4>1. {n \in DOMAIN section[q] : section[q][n] = "answer"} = {}
        BY <1>0, <2>4
      <4> QED
        BY <4>1, FS_EmptySet DEF Number, Copies
    <3>4. Head(section'[q]) = IF section[q] = <<>> THEN "answer" ELSE Head(section[q])
      BY <1>0, <3>1
    <3> QED
      BY <1>0, <2>1, <2>2, <3>2, <3>3, <3>4 DEF AnswersCounted
  <2> QED
    BY <2>3, <2>4
<1>3. CASE \E q \in Question : ImportQuestion(q)
  <2>1. PICK q \in Question : ImportQuestion(q)
    BY <1>3
  <2>2. /\ section' = [section EXCEPT ![q] = Append(section[q], "question")] /\ stage = "questions"
        /\ stage' = "markQuestion" /\ cur' = q /\ q \notin questionIn
        /\ UNCHANGED <<questionIn, errors, failures>>
    BY <2>1 DEF ImportQuestion, ImportInv, ImportInHand
  <2>3. /\ Number(q, "question")' = Number(q, "question") + 1 /\ AnswersCounted'
        /\ \A r \in Question \ {q} : Number(r, "question")' = Number(r, "question")
    BY <1>1, <2>2
  <2> QED
    BY <1>0, <2>2, <2>3 DEF QuestionsCounted
<1>4. CASE \E q \in Question : ImportQuestionFails(q)
  <2>1. PICK q \in Question : ImportQuestionFails(q)
    BY <1>4
  <2>2. /\ section' = section \/ section' = [section EXCEPT ![q] = Append(section[q], "question")]
        /\ stage = "questions" /\ errors' = errors + 1 /\ UNCHANGED <<questionIn, failures>>
    BY <2>1 DEF ImportQuestionFails
  <2>3. CASE section' = section
    BY <1>0, <2>2, <2>3 DEF QuestionsCounted, AnswersCounted, Number
  <2>4. CASE section' = [section EXCEPT ![q] = Append(section[q], "question")]
    <3>1. /\ Number(q, "question")' = Number(q, "question") + 1 /\ AnswersCounted'
          /\ \A r \in Question \ {q} : Number(r, "question")' = Number(r, "question")
      BY <1>1, <2>4
    <3> QED
      BY <1>0, <2>2, <3>1 DEF QuestionsCounted
  <2> QED
    BY <2>2, <2>3, <2>4
<1>5. CASE \E q \in Question : ImportAnswer(q) \/ ImportAnswerFails(q)
  <2>1. PICK q \in Question : ImportAnswer(q) \/ ImportAnswerFails(q)
    BY <1>5
  <2>2. /\ section' = section \/ section' = [section EXCEPT ![q] = WithAnswer(section[q])]
        /\ stage = "answers" /\ errors' \in {errors, errors + 1} /\ UNCHANGED <<questionIn, failures>>
    BY <2>1 DEF ImportAnswer, ImportAnswerFails
  <2>3. CASE section' = section
    BY <1>0, <2>2, <2>3 DEF QuestionsCounted, AnswersCounted, Number
  <2>4. CASE section' = [section EXCEPT ![q] = WithAnswer(section[q])]
    <3>1. AnswersCounted' /\ \A r \in Question : Number(r, "question")' = Number(r, "question")
      BY <1>2, <2>4
    <3> QED
      BY <1>0, <2>2, <3>1 DEF QuestionsCounted
  <2> QED
    BY <2>2, <2>3, <2>4
<1>6. CASE Crash \/ \E q \in Question : CrashSaving(q)
  <2>1. UNCHANGED <<section, questionIn, errors>> /\ failures' = failures + 1
    BY <1>6 DEF Crash, CrashSaving
  <2> QED
    BY <1>0, <2>1 DEF QuestionsCounted, AnswersCounted, Number
<1>7. CASE MarkQuestion
  <2>1. UNCHANGED <<section, errors, failures>> /\ questionIn' = questionIn \cup {cur}
    BY <1>7 DEF MarkQuestion
  <2> QED
    BY <1>0, <2>1 DEF QuestionsCounted, AnswersCounted, Number
<1>8. CASE /\ UNCHANGED <<section, questionIn, errors, failures>>
           /\ \/ stage' = stage /\ cur' = cur
              \/ stage # "markQuestion"
  BY <1>0, <1>8 DEF QuestionsCounted, AnswersCounted, Number
<1> QED
  BY <1>3, <1>4, <1>5, <1>6, <1>7, <1>8
  DEF SayItNext, RunStep, sayItVars, Ask, Answer, DeletePaper, StartRun, StartImport, SaveDone,
      QuestionsDone, AnswersDone, Save, SaveRefused, MarkAnswer, SkipQuestion, SkipAnswer

-----------------------------------------------------------------------------
LEMMA ImportInvariance ==
  SayItSpec => [](ImportInv /\ ImportClean /\ QuestionsCounted /\ AnswersCounted)
<1>1. SayItInit => ImportInv /\ ImportClean /\ QuestionsCounted /\ AnswersCounted
  <2> SUFFICES ASSUME SayItInit
               PROVE  ImportInv /\ ImportClean /\ QuestionsCounted /\ AnswersCounted
    OBVIOUS
  <2>1. ImportInv /\ ImportClean
    BY SayItAssumption DEF SayItInit, ImportInv, SayItTypeOK, ImportInHand, ImportClean, File, Speech
  <2>2. \A q \in Question : Number(q, "question") = 0
    BY NoSpeech DEF SayItInit, Number, Speech
  <2> QED
    BY <2>1, <2>2 DEF SayItInit, QuestionsCounted, AnswersCounted
<1> DEFINE All == ImportInv /\ ImportClean /\ QuestionsCounted /\ AnswersCounted
<1>2. All /\ [SayItNext]_sayItVars => All'
  BY SayItAssumption, ImportNextInv, ImportNextClean, NextCounted
<1> QED
  BY <1>1, <1>2, PTL DEF SayItSpec

(* import_into_sayit, while nothing goes wrong: the section of each row has *)
(* what the marks of the row say, for any number of questions and runs.    *)
THEOREM SectionsMarked == SayItSpec => []MarksTrue
<1>1. ImportInv /\ ImportClean => MarksTrue
  <2>1. /\ <<"question">> \o <<>> = <<"question">> /\ <<>> \o <<>> = <<>>
        /\ <<"question">> \o <<"answer">> = Append(<<"question">>, "answer")
    OBVIOUS
  <2> QED
    BY <2>1 DEF ImportInv, ImportInHand, ImportClean, MarksTrue
<1> QED
  BY <1>1, ImportInvariance, PTL

(* The limit of two speeches makes the import of answers repeatable, and   *)
(* an exception or a kill repeats at most one question.                    *)
THEOREM DuplicatesStayFew == SayItSpec => []FewDuplicates
<1>1. ImportInv /\ QuestionsCounted /\ AnswersCounted => FewDuplicates
  <2> SUFFICES ASSUME ImportInv, QuestionsCounted, AnswersCounted
               PROVE  FewDuplicates
    OBVIOUS
  <2>1. errors \in Nat /\ failures \in Nat
    BY SayItAssumption DEF ImportInv, SayItTypeOK
  <2>2. \A q \in Question : Number(q, "question") \in Nat
    BY SpeechAppended DEF ImportInv, SayItTypeOK, Speech, Number
  <2> QED
    BY <2>1, <2>2 DEF QuestionsCounted, AnswersCounted, FewDuplicates
<1> QED
  BY <1>1, ImportInvariance, PTL
=============================================================================
