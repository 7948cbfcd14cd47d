------------------------- MODULE IndexBuilder_proofs -------------------------
(***************************************************************************)
(* Proofs about IndexBuilder, for any documents, any terms and any number  *)
(* of calls: identifiers stay in one-to-one correspondence with terms, the *)
(* posting lists increase, and they are the collection inverted.           *)
(*                                                                         *)
(* The three depend on each other: a term is added to the last posting or  *)
(* to a new one depending on the last document of the list, which is right *)
(* because lists increase up to the current document and hold every        *)
(* document of their term; sorting moves lists between identifiers, which  *)
(* is right because identifiers are bijective.                             *)
(***************************************************************************)
EXTENDS IndexBuilder, Induction

(* Nothing was added before the first document; there are finitely many    *)
(* terms; the term map is a function into the identifiers.                 *)
StartsEmpty == document_sizes = << >> => postings = << >>
MapIsFinite == /\ IsFiniteSet(DOMAIN term_map)
               /\ term_map \in [DOMAIN term_map -> DOMAIN postings]

Inv == /\ BuilderTypeOK /\ StartsEmpty /\ MapIsFinite
       /\ IdsAreBijective /\ ListsIncrease /\ InvertsCollection

(* The parts of the invariant that speak of one posting list.              *)
GoodList(list, current) ==
  /\ list \in Seq(Posting)
  /\ list # << >>
  /\ \A i \in DOMAIN list : list[i].doc <= current
  /\ \A i, j \in DOMAIN list : i < j => list[i].doc < list[j].doc

LEMMA InitInv == BuilderInit => Inv
  <1> SUFFICES ASSUME BuilderInit PROVE Inv
    OBVIOUS
  <1>1. DOMAIN term_map = {} /\ DOMAIN postings = {} /\ IsFiniteSet(DOMAIN term_map)
    BY FS_EmptySet DEF BuilderInit
  <1>2. BuilderTypeOK
    BY <1>1 DEF BuilderInit, BuilderTypeOK
  <1>3. StartsEmpty /\ MapIsFinite
    BY <1>1 DEF BuilderInit, StartsEmpty, MapIsFinite
  <1>4. IdsAreBijective /\ ListsIncrease
    BY <1>1 DEF BuilderInit, IdsAreBijective, ListsIncrease
  <1>5. InvertsCollection
    BY <1>1 DEF BuilderInit, InvertsCollection
  <1> QED BY <1>2, <1>3, <1>4, <1>5 DEF Inv

(* A new document lies after every document in the lists.                  *)
LEMMA DocumentInv ==
  ASSUME Inv, NEW doc \in Docs, add_document(doc)
  PROVE  Inv'
  <1> USE DEF Inv
  <1>1. /\ postings' = postings /\ term_map' = term_map /\ tf' = tf
        /\ sorted_terms' = sorted_terms /\ term_occurrences' = term_occurrences
        /\ all_occurrences' = all_occurrences
        /\ current_doc' = doc /\ document_sizes' = Append(document_sizes, 0)
    BY DEF add_document
  <1>2. document_sizes' \in Seq(Nat) /\ document_sizes' # << >>
    BY <1>1 DEF BuilderTypeOK
  <1>3. BuilderTypeOK'
    BY <1>1, <1>2, DocsAssumption DEF BuilderTypeOK
  <1>4. StartsEmpty' /\ MapIsFinite'
    BY <1>1, <1>2 DEF StartsEmpty, MapIsFinite
  <1>5. IdsAreBijective' /\ InvertsCollection'
    BY <1>1 DEF IdsAreBijective, InvertsCollection
  <1>6. ListsIncrease'
    <2>1. CASE document_sizes = << >>
      BY <2>1, <1>1 DEF StartsEmpty, ListsIncrease
    <2>2. CASE doc > current_doc
      <3> SUFFICES ASSUME NEW id \in DOMAIN postings, NEW i \in DOMAIN postings[id]
                   PROVE  postings[id][i].doc <= doc
        BY <1>1 DEF ListsIncrease
      <3>1. postings[id] \in Seq(Posting)
        BY DEF BuilderTypeOK
      <3>2. postings[id][i] \in Posting
        BY <3>1
      <3>3. postings[id][i].doc \in Nat
        BY <3>2, DocsAssumption DEF Posting
      <3>4. postings[id][i].doc <= current_doc /\ current_doc \in Nat /\ doc \in Nat
        BY DocsAssumption DEF ListsIncrease, BuilderTypeOK
      <3> QED BY <3>3, <3>4, <2>2
    <2> QED BY <2>1, <2>2 DEF add_document
  <1> QED BY <1>3, <1>4, <1>5, <1>6

(* AddPosting on a good list of a term counts one occurrence more of the   *)
(* current document and leaves the other documents alone.                  *)
LEMMA AddPostingGood ==
  ASSUME NEW list, NEW doc \in Docs, GoodList(list, doc)
  PROVE  LET new == AddPosting(list, doc)
         IN  /\ GoodList(new, doc)
             /\ \A i \in DOMAIN list : list[i].doc # doc => i \in DOMAIN new /\ new[i] = list[i]
             /\ \E i \in DOMAIN new :
                  /\ new[i].doc = doc
                  /\ \/ /\ i \in DOMAIN list /\ list[i].doc = doc
                        /\ new[i].freq = list[i].freq + 1
                     \/ /\ new[i].freq = 1
                        /\ \A j \in DOMAIN list : list[j].doc # doc
                  /\ \A j \in DOMAIN new :
                       j # i => j \in DOMAIN list /\ list[j].doc # doc
  <1> DEFINE n == Len(list)
             new == AddPosting(list, doc)
  <1>1. list \in Seq(Posting) /\ n \in DOMAIN list /\ n \in Nat /\ DOMAIN list = 1..n
    BY DEF GoodList
  <1>0. \A i \in DOMAIN list : list[i] \in Posting
    BY <1>1
  <1>2. /\ doc \in Nat
        /\ \A i \in DOMAIN list : list[i].doc \in Nat /\ list[i].freq \in Nat
    BY <1>0, DocsAssumption DEF Posting
  <1>3. \A i \in DOMAIN list : i # n => list[i].doc < list[n].doc
    BY <1>1 DEF GoodList
  <1>4. \A i \in DOMAIN list : i # n => list[i].doc # doc
    BY <1>1, <1>2, <1>3 DEF GoodList
  <1>5. CASE list[n].doc = doc
    <2>3. new = [list EXCEPT ![n] = [doc |-> doc, freq |-> list[n].freq + 1]]
      BY <1>1, <1>5 DEF AddPosting, Back
    <2>4. [doc |-> doc, freq |-> list[n].freq + 1] \in Posting
      BY <1>1, <1>2 DEF Posting
    <2>5. new \in Seq(Posting) /\ Len(new) = n /\ DOMAIN new = 1..n
      BY <1>1, <1>2, <2>3, <2>4
    <2>6. \A i \in DOMAIN new : new[i].doc = list[i].doc
      BY <1>1, <1>5, <2>3
    <2>7. GoodList(new, doc)
      BY <1>1, <2>5, <2>6 DEF GoodList
    <2>8. n \in DOMAIN new /\ new[n].doc = doc /\ new[n].freq = list[n].freq + 1
      BY <1>1, <2>3, <2>5
    <2>9. \A i \in DOMAIN new : i # n => new[i] = list[i] /\ list[i].doc # doc
      BY <1>1, <1>4, <2>3, <2>5
    <2> QED BY <1>1, <1>5, <2>5, <2>7, <2>8, <2>9
  <1>6. CASE list[n].doc # doc
    <2>1. new = Append(list, [doc |-> doc, freq |-> 1])
      BY <1>1, <1>6 DEF AddPosting, Back
    <2>2. [doc |-> doc, freq |-> 1] \in Posting
      BY DEF Posting
    <2>3. /\ new \in Seq(Posting) /\ Len(new) = n + 1 /\ DOMAIN new = 1..(n + 1)
          /\ new[n + 1] = [doc |-> doc, freq |-> 1]
          /\ \A i \in 1..n : new[i] = list[i]
      BY <1>1, <2>1, <2>2
    <2>4. \A i \in 1..n : list[i].doc < doc
      BY <1>1, <1>2, <1>3, <1>6 DEF GoodList
    <2>5. GoodList(new, doc)
      <3>1. \A i \in DOMAIN new : new[i].doc <= doc
        BY <1>1, <1>2, <2>3, <2>4
      <3>2. ASSUME NEW i \in DOMAIN new, NEW j \in DOMAIN new, i < j
            PROVE  new[i].doc < new[j].doc
        <4>1. CASE j = n + 1
          BY <1>1, <2>3, <2>4, <3>2, <4>1
        <4>2. CASE j # n + 1
          BY <1>1, <2>3, <3>2, <4>2 DEF GoodList
        <4> QED BY <4>1, <4>2
      <3>3. new # << >>
        BY <2>3, <1>1
      <3> QED BY <2>3, <3>1, <3>2, <3>3 DEF GoodList
    <2>6. \A i \in 1..n : list[i].doc # doc
      BY <1>2, <1>1, <1>4, <1>6
    <2>7. n + 1 \in DOMAIN new /\ new[n + 1].doc = doc /\ new[n + 1].freq = 1
      BY <1>1, <2>3
    <2>8. \A j \in DOMAIN new : j # n + 1 => j \in DOMAIN list
      BY <1>1, <2>3
    <2> QED BY <1>1, <2>3, <2>5, <2>6, <2>7, <2>8
  <1> QED BY <1>5, <1>6

(* What one more occurrence of a term leaves alone, known term or new.     *)
LEMMA AddTermTypes ==
  ASSUME Inv, NEW term \in Terms, add_term(term)
  PROVE  /\ current_doc \in Docs
         /\ document_sizes' # << >> /\ document_sizes' \in Seq(Nat)
         /\ all_occurrences' \in Nat
         /\ tf' \in [Docs -> [Terms -> Nat]]
         /\ tf'[current_doc][term] = tf[current_doc][term] + 1
         /\ \A d \in Docs, t \in Terms :
              d # current_doc \/ t # term => tf'[d][t] = tf[d][t]
  <1>1. document_sizes # << >> /\ document_sizes \in Seq(Nat) /\ current_doc \in Docs
    BY DEF Inv, BuilderTypeOK, add_term
  <1>2. Len(document_sizes) \in Nat \ {0} /\ DOMAIN document_sizes = 1..Len(document_sizes)
    BY <1>1
  <1>3. document_sizes' = [document_sizes EXCEPT ![Len(document_sizes)] =
                             document_sizes[Len(document_sizes)] + 1]
    BY DEF add_term
  <1>4. document_sizes[Len(document_sizes)] + 1 \in Nat
    BY <1>1, <1>2
  <1>5. document_sizes' \in Seq(Nat) /\ Len(document_sizes') = Len(document_sizes)
    BY <1>1, <1>2, <1>3, <1>4
  <1>6. tf \in [Docs -> [Terms -> Nat]]
    BY DEF Inv, BuilderTypeOK
  <1>7. tf' = [tf EXCEPT ![current_doc] =
                 [tf[current_doc] EXCEPT ![term] = tf[current_doc][term] + 1]]
    BY DEF add_term
  <1>8. tf[current_doc] \in [Terms -> Nat]
    BY <1>1, <1>6
  <1>9. [tf[current_doc] EXCEPT ![term] = tf[current_doc][term] + 1] \in [Terms -> Nat]
    BY <1>8
  <1>10. all_occurrences' \in Nat
    BY DEF Inv, BuilderTypeOK, add_term
  <1> QED BY <1>1, <1>2, <1>5, <1>6, <1>7, <1>8, <1>9, <1>10

(* A known term: its list grows at the end, in place or by one posting.    *)
LEMMA KnownTermInv ==
  ASSUME Inv, NEW term \in Terms, add_term(term), term \in DOMAIN term_map
  PROVE  Inv'
  <1> DEFINE id   == term_map[term]
             list == postings[id]
             new  == AddPosting(list, current_doc)
  <1>1. /\ postings' = [postings EXCEPT ![id] = new]
        /\ term_occurrences' = [term_occurrences EXCEPT ![id] = term_occurrences[id] + 1]
        /\ term_map' = term_map /\ current_doc' = current_doc /\ sorted_terms' = sorted_terms
    BY DEF add_term, AddKnownTerm
  <1>2. id \in DOMAIN postings /\ postings \in Seq(Seq(Posting)) /\ current_doc \in Docs
    BY AddTermTypes DEF Inv, BuilderTypeOK
  <1>3. list \in Seq(Posting)
    BY <1>2
  <1>4. GoodList(list, current_doc)
    BY <1>2, <1>3 DEF Inv, ListsIncrease, GoodList
  <1>5. /\ GoodList(new, current_doc)
        /\ \A i \in DOMAIN list :
             list[i].doc # current_doc => i \in DOMAIN new /\ new[i] = list[i]
        /\ \E i \in DOMAIN new :
             /\ new[i].doc = current_doc
             /\ \/ /\ i \in DOMAIN list /\ list[i].doc = current_doc
                   /\ new[i].freq = list[i].freq + 1
                \/ /\ new[i].freq = 1
                   /\ \A j \in DOMAIN list : list[j].doc # current_doc
             /\ \A j \in DOMAIN new :
                  j # i => j \in DOMAIN list /\ list[j].doc # current_doc
    BY <1>2, <1>4, AddPostingGood, ZenonT(30)
  <1> HIDE DEF new
  <1>6. /\ DOMAIN postings' = DOMAIN postings /\ postings'[id] = new
        /\ \A i \in DOMAIN postings : i # id => postings'[i] = postings[i]
    BY <1>1, <1>2
  <1>7. postings' \in Seq(Seq(Posting)) /\ Len(postings') = Len(postings)
    BY <1>1, <1>2, <1>5 DEF GoodList
  <1>8. term_occurrences \in Seq(Nat) /\ id \in 1..Len(term_occurrences)
    BY <1>2 DEF Inv, BuilderTypeOK, IdsAreBijective
  <1>9. term_occurrences' \in Seq(Nat) /\ Len(term_occurrences') = Len(term_occurrences)
    <2>1. term_occurrences[id] + 1 \in Nat
      BY <1>8
    <2> QED BY <1>1, <1>8, <2>1
  <1>10. BuilderTypeOK'
    BY <1>1, <1>6, <1>7, <1>9, AddTermTypes DEF Inv, BuilderTypeOK
  <1>11. StartsEmpty' /\ MapIsFinite'
    BY <1>1, <1>6, AddTermTypes DEF Inv, StartsEmpty, MapIsFinite
  <1>12. IdsAreBijective'
    BY <1>1, <1>6, <1>7, <1>9 DEF Inv, IdsAreBijective
  <1>13. ListsIncrease'
    BY <1>1, <1>5, <1>6 DEF Inv, ListsIncrease, GoodList
  <1>14. InvertsCollection'
    <2>1. ASSUME NEW t \in DOMAIN term_map, t # term
          PROVE  postings'[term_map[t]] = postings[term_map[t]] /\ t \in Terms
      BY <1>2, <1>6, <2>1 DEF Inv, IdsAreBijective, BuilderTypeOK
    <2>2. ASSUME NEW t \in DOMAIN term_map, t # term
          PROVE  LET l == postings'[term_map[t]]
                 IN  /\ \A i \in DOMAIN l : l[i].freq = tf'[l[i].doc][t]
                     /\ \A d \in Docs : tf'[d][t] > 0 => \E i \in DOMAIN l : l[i].doc = d
      <3>1. postings[term_map[t]] \in Seq(Posting)
        BY DEF Inv, BuilderTypeOK
      <3>2. \A i \in DOMAIN postings[term_map[t]] : postings[term_map[t]][i] \in Posting
        BY <3>1
      <3>3. \A i \in DOMAIN postings[term_map[t]] : postings[term_map[t]][i].doc \in Docs
        BY <3>2 DEF Posting
      <3>4. \A d \in Docs : tf'[d][t] = tf[d][t]
        BY <2>1, <2>2, AddTermTypes
      <3> QED BY <2>1, <2>2, <3>3, <3>4 DEF Inv, InvertsCollection
    <2>3. \A i \in DOMAIN new : new[i].freq = tf'[new[i].doc][term]
      <3>1. PICK k \in DOMAIN new :
             /\ new[k].doc = current_doc
             /\ \/ /\ k \in DOMAIN list /\ list[k].doc = current_doc
                   /\ new[k].freq = list[k].freq + 1
                \/ /\ new[k].freq = 1
                   /\ \A j \in DOMAIN list : list[j].doc # current_doc
             /\ \A j \in DOMAIN new :
                  j # k => j \in DOMAIN list /\ list[j].doc # current_doc
        BY <1>5
      <3>2. /\ \A i \in DOMAIN list : list[i].freq = tf[list[i].doc][term]
            /\ \A d \in Docs : tf[d][term] > 0 => \E i \in DOMAIN list : list[i].doc = d
        BY DEF Inv, InvertsCollection
      <3>3. tf[current_doc][term] \in Nat
        BY <1>2 DEF Inv, BuilderTypeOK
      <3>4. new[k].freq = tf'[current_doc][term]
        <4>1. CASE k \in DOMAIN list /\ list[k].doc = current_doc
                   /\ new[k].freq = list[k].freq + 1
          BY <3>2, <4>1, AddTermTypes
        <4>2. CASE new[k].freq = 1 /\ \A j \in DOMAIN list : list[j].doc # current_doc
          <5>1. tf[current_doc][term] = 0
            BY <1>2, <3>2, <3>3, <4>2
          <5> QED BY <4>2, <5>1, AddTermTypes
        <4> QED BY <3>1, <4>1, <4>2
      <3>5. ASSUME NEW i \in DOMAIN new, i # k
            PROVE  new[i].freq = tf'[new[i].doc][term]
        <4>1. i \in DOMAIN list /\ list[i].doc # current_doc /\ new[i] = list[i]
          BY <3>1, <3>5, <1>5
        <4>2. list[i] \in Posting
          BY <1>3, <4>1
        <4>3. list[i].doc \in Docs
          BY <4>2 DEF Posting
        <4>4. tf'[list[i].doc][term] = tf[list[i].doc][term]
          BY <4>1, <4>3, AddTermTypes
        <4> QED BY <3>2, <4>1, <4>4
      <3> QED BY <3>1, <3>4, <3>5
    <2>4. ASSUME NEW d \in Docs, tf'[d][term] > 0
          PROVE  \E i \in DOMAIN new : new[i].doc = d
      <3>1. CASE d = current_doc
        BY <1>5, <3>1
      <3>2. CASE d # current_doc
        <4>1. tf[d][term] > 0
          BY <2>4, <3>2, AddTermTypes
        <4>2. PICK i \in DOMAIN list : list[i].doc = d
          BY <4>1 DEF Inv, InvertsCollection
        <4> QED BY <1>5, <3>2, <4>2
      <3> QED BY <3>1, <3>2
    <2>5. ASSUME NEW t \in Terms \ DOMAIN term_map, NEW d \in Docs
          PROVE  tf'[d][t] = 0
      <3>1. t # term /\ tf[d][t] = 0
        BY DEF Inv, InvertsCollection
      <3> QED BY <3>1, AddTermTypes
    <2> QED BY <1>1, <1>6, <2>2, <2>3, <2>4, <2>5 DEF InvertsCollection
  <1> QED BY <1>10, <1>11, <1>12, <1>13, <1>14 DEF Inv

(* A new term: it takes the next identifier and a list of one posting.     *)
LEMMA NewTermInv ==
  ASSUME Inv, NEW term \in Terms, add_term(term), term \notin DOMAIN term_map
  PROVE  Inv'
  <1> DEFINE id  == Len(postings) + 1
             new == << [doc |-> current_doc, freq |-> 1] >>
  <1>1. /\ postings' = Append(postings, new)
        /\ term_occurrences' = Append(term_occurrences, 1)
        /\ term_map' = [t \in DOMAIN term_map \cup {term} |->
                          IF t = term THEN id ELSE term_map[t]]
        /\ current_doc' = current_doc /\ sorted_terms' = sorted_terms
    BY DEF add_term, AddNewTerm
  <1>2. postings \in Seq(Seq(Posting)) /\ current_doc \in Docs /\ current_doc \in Nat
    BY AddTermTypes, DocsAssumption DEF Inv, BuilderTypeOK
  <1>3. [doc |-> current_doc, freq |-> 1] \in Posting
    BY <1>2 DEF Posting
  <1>4. /\ new \in Seq(Posting) /\ DOMAIN new = {1} /\ new # << >>
        /\ new[1].doc = current_doc /\ new[1].freq = 1
    BY <1>3
  <1> HIDE DEF new
  <1>5. /\ postings' \in Seq(Seq(Posting)) /\ Len(postings') = id
        /\ DOMAIN postings = 1..Len(postings) /\ DOMAIN postings' = 1..id /\ id \in Nat
        /\ postings'[id] = new /\ \A i \in DOMAIN postings : postings'[i] = postings[i]
    BY <1>1, <1>2, <1>4
  <1>6. /\ DOMAIN term_map' = DOMAIN term_map \cup {term} /\ term_map'[term] = id
        /\ \A t \in DOMAIN term_map : term_map'[t] = term_map[t] /\ t # term
        /\ \A t \in DOMAIN term_map : term_map[t] \in DOMAIN postings /\ t \in Terms
    BY <1>1 DEF Inv, BuilderTypeOK
  <1>7. term_occurrences' \in Seq(Nat) /\ Len(term_occurrences') = Len(postings')
    BY <1>1, <1>5 DEF Inv, BuilderTypeOK, IdsAreBijective
  <1>8. BuilderTypeOK'
    BY <1>1, <1>2, <1>5, <1>6, <1>7, AddTermTypes, SMTT(30) DEF Inv, BuilderTypeOK
  <1>9. StartsEmpty' /\ MapIsFinite'
    <2>1. IsFiniteSet(DOMAIN term_map')
      BY <1>6, FS_AddElement DEF Inv, MapIsFinite
    <2>2. term_map' \in [DOMAIN term_map' -> DOMAIN postings']
      BY <1>1, <1>5, <1>6
    <2> QED BY <2>1, <2>2, AddTermTypes DEF StartsEmpty, MapIsFinite
  <1>10. IdsAreBijective'
    <2>1. \A s, t \in DOMAIN term_map' : term_map'[s] = term_map'[t] => s = t
      BY <1>5, <1>6 DEF Inv, IdsAreBijective
    <2>2. ASSUME NEW i \in DOMAIN postings'
          PROVE  \E t \in DOMAIN term_map' : term_map'[t] = i
      <3>1. CASE i = id
        BY <3>1, <1>6
      <3>2. CASE i # id
        BY <3>2, <1>5, <1>6 DEF Inv, IdsAreBijective
      <3> QED BY <3>1, <3>2
    <2> QED BY <1>7, <2>1, <2>2 DEF IdsAreBijective
  <1>11. ListsIncrease'
    <2> SUFFICES ASSUME NEW i \in DOMAIN postings'
                 PROVE  /\ postings'[i] # << >>
                        /\ \A j \in DOMAIN postings'[i] : postings'[i][j].doc <= current_doc
                        /\ \A j, k \in DOMAIN postings'[i] :
                             j < k => postings'[i][j].doc < postings'[i][k].doc
      BY <1>1 DEF ListsIncrease
    <2>1. CASE i = id
      BY <2>1, <1>2, <1>4, <1>5
    <2>2. CASE i # id
      <3>1. i \in DOMAIN postings /\ postings'[i] = postings[i]
        BY <2>2, <1>5
      <3> QED BY <3>1 DEF Inv, ListsIncrease
    <2> QED BY <2>1, <2>2
  <1>12. InvertsCollection'
    <2>1. ASSUME NEW t \in DOMAIN term_map
          PROVE  LET l == postings'[term_map'[t]]
                 IN  /\ \A i \in DOMAIN l : l[i].freq = tf'[l[i].doc][t]
                     /\ \A d \in Docs : tf'[d][t] > 0 => \E i \in DOMAIN l : l[i].doc = d
      <3>1. postings'[term_map'[t]] = postings[term_map[t]] /\ t \in Terms /\ t # term
        BY <1>5, <1>6
      <3>2. postings[term_map[t]] \in Seq(Posting)
        BY <1>2, <1>6
      <3>3. \A i \in DOMAIN postings[term_map[t]] : postings[term_map[t]][i] \in Posting
        BY <3>2
      <3>4. \A i \in DOMAIN postings[term_map[t]] : postings[term_map[t]][i].doc \in Docs
        BY <3>3 DEF Posting
      <3>5. \A d \in Docs : tf'[d][t] = tf[d][t]
        BY <3>1, AddTermTypes
      <3> QED BY <3>1, <3>4, <3>5 DEF Inv, InvertsCollection
    <2>2. \A d \in Docs : tf[d][term] = 0
      BY DEF Inv, InvertsCollection
    <2>3. tf'[current_doc][term] = 1
      BY <1>2, <2>2, AddTermTypes
    <2>4. ASSUME NEW d \in Docs, tf'[d][term] > 0
          PROVE  d = current_doc
      <3>1. d # current_doc => tf'[d][term] = 0
        BY <2>2, AddTermTypes
      <3> QED BY <2>4, <3>1
    <2>5. postings'[term_map'[term]] = new
      BY <1>5, <1>6
    <2>6. ASSUME NEW t \in Terms \ DOMAIN term_map', NEW d \in Docs
          PROVE  tf'[d][t] = 0
      <3>1. t # term /\ t \notin DOMAIN term_map
        BY <1>6
      <3>2. tf[d][t] = 0
        BY <3>1 DEF Inv, InvertsCollection
      <3> QED BY <3>1, <3>2, AddTermTypes
    <2>7. ASSUME NEW t \in DOMAIN term_map'
          PROVE  LET l == postings'[term_map'[t]]
                 IN  /\ \A i \in DOMAIN l : l[i].freq = tf'[l[i].doc][t]
                     /\ \A d \in Docs : tf'[d][t] > 0 => \E i \in DOMAIN l : l[i].doc = d
      <3>1. CASE t = term
        BY <3>1, <2>3, <2>4, <2>5, <1>4
      <3>2. CASE t # term
        BY <3>2, <2>1, <1>6
      <3> QED BY <3>1, <3>2
    <2> QED BY <2>6, <2>7 DEF InvertsCollection
  <1> QED BY <1>8, <1>9, <1>10, <1>11, <1>12 DEF Inv

(* What a sort leaves: the terms in order, each with its place among them  *)
(* as identifier, and everything else moved to the new identifiers.        *)
Resorted(order, n) ==
  /\ n = Cardinality(DOMAIN term_map) /\ n \in Nat
  /\ order \in [1..n -> DOMAIN term_map]
  /\ \A i, j \in 1..n : i < j => order[i] < order[j]
  /\ \A i, j \in 1..n : order[i] = order[j] => i = j
  /\ sorted_terms' = << order >>
  /\ postings' = [i \in 1..n |-> postings[term_map[order[i]]]]
  /\ term_occurrences' = [i \in 1..n |-> term_occurrences[term_map[order[i]]]]
  /\ term_map' \in [DOMAIN term_map -> 1..n]
  /\ \A t \in DOMAIN term_map : order[term_map'[t]] = t
  /\ \A i \in 1..n : term_map'[order[i]] = i
  /\ UNCHANGED <<current_doc, all_occurrences, document_sizes, tf>>

LEMMA SortShape ==
  ASSUME Inv, sort_terms
  PROVE  \E order, n : Resorted(order, n)
  <1> DEFINE S == DOMAIN term_map
             n == Cardinality(S)
  <1>1. PICK order \in Orderings(S) :
          /\ sorted_terms' = << order >>
          /\ postings' = [i \in DOMAIN order |-> postings[term_map[order[i]]]]
          /\ term_occurrences' =
               [i \in DOMAIN order |-> term_occurrences[term_map[order[i]]]]
          /\ term_map' = [t \in S |-> CHOOSE i \in DOMAIN order : order[i] = t]
          /\ UNCHANGED <<current_doc, all_occurrences, document_sizes, tf>>
    BY DEF sort_terms
  <1>2. n \in Nat
    BY FS_CardinalityType DEF Inv, MapIsFinite
  <1>8. n = Cardinality(S)
    OBVIOUS
  <1> HIDE DEF n
  <1>3. /\ order \in [1..n -> S] /\ DOMAIN order = 1..n
        /\ \A i, j \in 1..n : i < j => order[i] < order[j]
        /\ \A t \in S : \E i \in 1..n : order[i] = t
    BY DEF Orderings, n
  <1>4. \A t \in S : t \in Int
    BY TermsAssumption DEF Inv, BuilderTypeOK
  <1>5. \A i, j \in 1..n : order[i] = order[j] => i = j
    <2> SUFFICES ASSUME NEW i \in 1..n, NEW j \in 1..n, order[i] = order[j], i # j
                 PROVE  FALSE
      OBVIOUS
    <2>1. order[i] \in Int /\ order[j] \in Int
      BY <1>3, <1>4
    <2>2. i < j \/ j < i
      BY <1>2
    <2> QED BY <2>1, <2>2, <1>3
  <1>6. \A t \in S : term_map'[t] \in 1..n /\ order[term_map'[t]] = t
    BY <1>1, <1>3
  <1>7. \A i \in 1..n : term_map'[order[i]] = i
    BY <1>3, <1>5, <1>6
  <1>9. term_map' \in [S -> 1..n]
    BY <1>1, <1>6
  <1> QED BY <1>1, <1>2, <1>3, <1>5, <1>6, <1>7, <1>8, <1>9 DEF Resorted

(* Sorting renames the identifiers and moves every list along.             *)
LEMMA SortInv ==
  ASSUME Inv, sort_terms
  PROVE  Inv'
  <1> DEFINE S == DOMAIN term_map
  <1>1. PICK order, n : Resorted(order, n)
    BY SortShape
  <1>2. n \in Nat /\ n = Cardinality(S)
    BY <1>1 DEF Resorted
  <1>3. /\ order \in [1..n -> S] /\ DOMAIN order = 1..n
        /\ \A t \in S : \E i \in 1..n : order[i] = t
    BY <1>1 DEF Resorted
  <1>4. S \subseteq Terms
    BY DEF Inv, BuilderTypeOK
  <1>6. \A t \in S : term_map'[t] \in 1..n /\ order[term_map'[t]] = t
    BY <1>1 DEF Resorted
  <1>7. \A i \in 1..n : order[i] \in S /\ term_map'[order[i]] = i
    BY <1>1 DEF Resorted
  <1>8. \A t \in S : term_map[t] \in DOMAIN postings
    BY DEF Inv, BuilderTypeOK
  <1>9. /\ DOMAIN postings' = 1..n /\ DOMAIN term_map' = S
        /\ \A t \in S : postings'[term_map'[t]] = postings[term_map[t]]
        /\ \A i \in 1..n : postings'[i] = postings[term_map[order[i]]]
    BY <1>1, <1>3, <1>6 DEF Resorted
  <1>10. postings \in Seq(Seq(Posting)) /\ term_occurrences \in Seq(Nat)
         /\ DOMAIN term_occurrences = DOMAIN postings
    BY DEF Inv, BuilderTypeOK, IdsAreBijective
  <1>11. \A i \in 1..n : /\ postings[term_map[order[i]]] \in Seq(Posting)
                         /\ term_occurrences[term_map[order[i]]] \in Nat
    BY <1>7, <1>8, <1>10
  <1>12. /\ postings' \in Seq(Seq(Posting)) /\ term_occurrences' \in Seq(Nat)
         /\ Len(postings') = n /\ Len(term_occurrences') = n
    <2>1. /\ postings' = [i \in 1..n |-> postings[term_map[order[i]]]]
          /\ term_occurrences' = [i \in 1..n |-> term_occurrences[term_map[order[i]]]]
      BY <1>1 DEF Resorted
    <2>2. /\ postings' \in [1..n -> Seq(Posting)]
          /\ term_occurrences' \in [1..n -> Nat]
      BY <2>1, <1>11
    <2>3. /\ \A f \in [1..n -> Seq(Posting)] : f \in Seq(Seq(Posting)) /\ Len(f) = n
          /\ \A f \in [1..n -> Nat] : f \in Seq(Nat) /\ Len(f) = n
      BY <1>2
    <2> QED BY <2>2, <2>3
  <1>13. sorted_terms' \in Seq(Seq(Terms)) /\ Len(sorted_terms') = 1
    <2>1. order \in [1..n -> Terms]
      BY <1>3, <1>4
    <2>2. order \in Seq(Terms)
      BY <1>2, <2>1
    <2> QED BY <1>1, <2>2 DEF Resorted
  <1>0. /\ current_doc' = current_doc /\ all_occurrences' = all_occurrences
        /\ document_sizes' = document_sizes /\ tf' = tf
    BY <1>1 DEF Resorted
  <1>14. BuilderTypeOK'
    <2>1. \A t \in S : term_map'[t] \in DOMAIN postings'
      BY <1>6, <1>9
    <2>2. DOMAIN term_map' \subseteq Terms
      BY <1>4, <1>9
    <2> QED BY <1>0, <1>9, <1>12, <1>13, <2>1, <2>2 DEF Inv, BuilderTypeOK
  <1>15. StartsEmpty' /\ MapIsFinite'
    <2>1. term_map' \in [S -> 1..n]
      BY <1>1 DEF Resorted
    <2>2. ASSUME document_sizes = << >> PROVE postings' = << >>
      <3>1. S = {}
        <4>1. DOMAIN postings = {}
          BY <2>2 DEF Inv, StartsEmpty
        <4> QED BY <4>1, <1>8
      <3>2. n = 0
        BY <3>1, <1>2, FS_EmptySet
      <3> QED BY <3>2, <1>12
    <2>3. IsFiniteSet(S)
      BY DEF Inv, MapIsFinite
    <2> QED BY <1>0, <1>9, <2>1, <2>2, <2>3 DEF StartsEmpty, MapIsFinite
  <1>16. IdsAreBijective'
    <2>1. \A s, t \in S : term_map'[s] = term_map'[t] => s = t
      BY <1>6
    <2>2. \A i \in 1..n : \E t \in S : term_map'[t] = i
      BY <1>7
    <2> QED BY <1>9, <1>12, <2>1, <2>2 DEF IdsAreBijective
  <1>17. ListsIncrease'
    BY <1>0, <1>7, <1>8, <1>9 DEF Inv, ListsIncrease
  <1>18. InvertsCollection'
    <2>1. ASSUME NEW t \in S
          PROVE  LET l == postings'[term_map'[t]]
                 IN  /\ \A i \in DOMAIN l : l[i].freq = tf[l[i].doc][t]
                     /\ \A d \in Docs : tf[d][t] > 0 => \E i \in DOMAIN l : l[i].doc = d
      <3>1. postings'[term_map'[t]] = postings[term_map[t]]
        BY <1>9
      <3> QED BY <3>1 DEF Inv, InvertsCollection
    <2>2. \A t \in Terms \ S : \A d \in Docs : tf[d][t] = 0
      BY DEF Inv, InvertsCollection
    <2> QED BY <1>0, <1>9, <2>1, <2>2 DEF InvertsCollection
  <1> QED BY <1>14, <1>15, <1>16, <1>17, <1>18 DEF Inv

LEMMA NextInv == Inv /\ [BuilderNext]_builder_vars => Inv'
  <1> SUFFICES ASSUME Inv, [BuilderNext]_builder_vars PROVE Inv'
    OBVIOUS
  <1>1. CASE \E doc \in Docs : add_document(doc)
    BY <1>1, DocumentInv
  <1>2. CASE \E term \in Terms : add_term(term)
    <2>1. PICK term \in Terms : add_term(term)
      BY <1>2
    <2> QED BY <2>1, KnownTermInv, NewTermInv
  <1>3. CASE sort_terms \/ SortBeforeWrite
    BY <1>3, SortInv DEF SortBeforeWrite
  <1>4. CASE UNCHANGED builder_vars
    BY <1>4 DEF builder_vars, Inv, BuilderTypeOK, StartsEmpty, MapIsFinite, IdsAreBijective,
                ListsIncrease, InvertsCollection
  <1> QED BY <1>1, <1>2, <1>3, <1>4 DEF BuilderNext

(* The invariant holds in every state.                                     *)
THEOREM Invariance == BuilderSpec => []Inv
  BY InitInv, NextInv, PTL DEF BuilderSpec

(* Every variable keeps its type; in particular every term has an          *)
(* identifier inside postings_, so no call indexes out of range.           *)
THEOREM TypeCorrect == BuilderSpec => []BuilderTypeOK
  <1>1. Inv => BuilderTypeOK
    BY DEF Inv
  <1> QED BY <1>1, Invariance, PTL

(* Terms and identifiers stay in one-to-one correspondence.                *)
THEOREM IdsCorrect == BuilderSpec => []IdsAreBijective
  <1>1. Inv => IdsAreBijective
    BY DEF Inv
  <1> QED BY <1>1, Invariance, PTL

(* Every posting list is strictly increasing: what the delta encoding of   *)
(* the lists and the search in them take for granted.                      *)
THEOREM ListsCorrect == BuilderSpec => []ListsIncrease
  <1>1. Inv => ListsIncrease
    BY DEF Inv
  <1> QED BY <1>1, Invariance, PTL

(* The index in memory is the collection inverted, after any calls.        *)
THEOREM InversionCorrect == BuilderSpec => []InvertsCollection
  <1>1. Inv => InvertsCollection
    BY DEF Inv
  <1> QED BY <1>1, Invariance, PTL

-----------------------------------------------------------------------------
(* What the files say, row by row, and what they add up to.  The           *)
(* occurrences of a term are the sum of its frequencies, and those of the  *)
(* batch the sum over all terms, and over all documents.                   *)
SumsInv ==
  /\ all_occurrences = SumFunction(document_sizes)
  /\ all_occurrences = SumFunction(term_occurrences)
  /\ \A t \in DOMAIN term_map :
       /\ IsFiniteSet(DocumentsOf(t))
       /\ term_occurrences[term_map[t]] = SumFunctionOnSet(Frequencies(t), DocumentsOf(t))

(* The terms sorted last still have the identifiers they got then, however *)
(* many terms were added since.                                            *)
SortKept ==
  sorted_terms # << >> =>
    \A i \in DOMAIN written_terms :
      /\ written_terms[i] \in DOMAIN term_map /\ term_map[written_terms[i]] = i
      /\ \A j \in 1..(i - 1) : written_terms[j] < written_terms[i]

LEMMA SumAppended ==
  ASSUME NEW s \in Seq(Nat), NEW v \in Nat
  PROVE  SumFunction(Append(s, v)) = SumFunction(s) + v
  <1> DEFINE last == Len(s) + 1
             D    == DOMAIN s
             A    == DOMAIN Append(s, v)
             a    == Append(s, v)
  <1>1. /\ IsFiniteSet(D) /\ IsFiniteSet(A)
        /\ last \in A /\ A \ {last} = D
        /\ a[last] = v
    <2>1. Len(s) \in Nat /\ D = 1..Len(s) /\ A = 1..last /\ last \in Nat
      OBVIOUS
    <2>2. IsFiniteSet(D) /\ IsFiniteSet(A)
      BY <2>1, FS_Interval
    <2>3. last \in A /\ A \ {last} = D
      BY <2>1
    <2>4. a[last] = v
      OBVIOUS
    <2> QED BY <2>2, <2>3, <2>4
  <1>2. \A i \in D : a[i] = s[i] /\ s[i] \in Int
    OBVIOUS
  <1>3. SumFunction(s) = SumFunctionOnSet(s, D) /\ SumFunction(a) = SumFunctionOnSet(a, A)
    BY DEF SumFunction
  <1> HIDE DEF last, D, A, a
  <1>4. \A i \in A : a[i] \in Int
    BY <1>1, <1>2
  <1>5. SumFunctionOnSet(a, A) = a[last] + SumFunctionOnSet(a, A \ {last})
    BY <1>1, <1>4, SetSumRemove
  <1>6. \A i \in D : s[i] \in Int /\ a[i] = s[i]
    BY <1>2
  <1>7. SumFunctionOnSet(s, D) = SumFunctionOnSet(a, D)
    BY <1>1, <1>6, SetSumSame
  <1>8. SumFunctionOnSet(s, D) \in Int
    BY <1>1, <1>6, SetSumRemove
  <1>9. SumFunctionOnSet(a, A) = v + SumFunctionOnSet(s, D)
    BY <1>1, <1>5, <1>7
  <1>10. SumFunction(a) = SumFunction(s) + v
    BY <1>3, <1>8, <1>9
  <1> QED BY <1>10 DEF a

LEMMA SumBumped ==
  ASSUME NEW s \in Seq(Nat), NEW i \in DOMAIN s
  PROVE  SumFunction([s EXCEPT ![i] = s[i] + 1]) = SumFunction(s) + 1
  <1> DEFINE b == [s EXCEPT ![i] = s[i] + 1]
             D == DOMAIN s
  <1>1. IsFiniteSet(D) /\ i \in D
    <2>1. Len(s) \in Nat /\ D = 1..Len(s)
      OBVIOUS
    <2> QED BY <2>1, FS_Interval
  <1>2. \A k \in D : s[k] \in Int /\ b[k] \in Int
    OBVIOUS
  <1>3. \A k \in D \ {i} : b[k] = s[k]
    OBVIOUS
  <1>4. b[i] - s[i] = 1
    OBVIOUS
  <1>5. SumFunction(s) = SumFunctionOnSet(s, D) /\ SumFunction(b) = SumFunctionOnSet(b, D)
    BY DEF SumFunction
  <1> HIDE DEF b, D
  <1>6. SumFunctionOnSet(b, D) = SumFunctionOnSet(s, D) + (b[i] - s[i])
    BY <1>1, <1>2, <1>3, SetSumChange
  <1>7. SumFunction(b) = SumFunction(s) + 1
    BY <1>4, <1>5, <1>6
  <1> QED BY <1>7 DEF b

LEMMA DocumentSums ==
  ASSUME Inv, SumsInv, SortKept, NEW doc \in Docs, add_document(doc)
  PROVE  SumsInv' /\ SortKept'
  <1>1. /\ term_occurrences' = term_occurrences /\ term_map' = term_map /\ tf' = tf
        /\ sorted_terms' = sorted_terms /\ all_occurrences' = all_occurrences
        /\ document_sizes' = Append(document_sizes, 0)
    BY DEF add_document
  <1>2. document_sizes \in Seq(Nat) /\ all_occurrences \in Nat
    BY DEF Inv, BuilderTypeOK
  <1>3. SumFunction(document_sizes') = SumFunction(document_sizes)
    <2>1. SumFunction(document_sizes') = SumFunction(document_sizes) + 0
      BY <1>1, <1>2, SumAppended
    <2>2. SumFunction(document_sizes) = all_occurrences
      BY DEF SumsInv
    <2>3. SumFunction(document_sizes) \in Nat
      BY <2>2, <1>2
    <2> QED BY <2>1, <2>3
  <1>4. SumsInv'
    BY <1>1, <1>3 DEF SumsInv, DocumentsOf, Frequencies
  <1>5. SortKept'
    BY <1>1 DEF SortKept, written_terms
  <1> QED BY <1>4, <1>5

(* One occurrence more of a term adds one to its own sum only.             *)
LEMMA FrequencySums ==
  ASSUME Inv, NEW term \in Terms, add_term(term), IsFiniteSet(DocumentsOf(term))
  PROVE  /\ IsFiniteSet(DocumentsOf(term)')
         /\ SumFunctionOnSet(Frequencies(term), DocumentsOf(term))' =
              SumFunctionOnSet(Frequencies(term), DocumentsOf(term)) + 1
  <1> DEFINE f == Frequencies(term)
             g == [d \in Docs |-> tf'[d][term]]
             S == DocumentsOf(term)
             T == { d \in Docs : tf'[d][term] > 0 }
             doc == current_doc
  <1>1. /\ doc \in Docs
        /\ tf \in [Docs -> [Terms -> Nat]] /\ tf' \in [Docs -> [Terms -> Nat]]
        /\ tf'[doc][term] = tf[doc][term] + 1
        /\ \A d \in Docs : d # doc => tf'[d][term] = tf[d][term]
    BY AddTermTypes DEF Inv, BuilderTypeOK
  <1>2. /\ \A d \in Docs : f[d] \in Nat /\ g[d] \in Nat
        /\ g[doc] = f[doc] + 1
        /\ \A d \in Docs : d # doc => g[d] = f[d]
        /\ \A d \in Docs : (d \in S <=> f[d] > 0) /\ (d \in T <=> g[d] > 0)
        /\ S \subseteq Docs /\ T \subseteq Docs
    BY <1>1 DEF Frequencies, DocumentsOf
  <1>3. Frequencies(term)' = g /\ DocumentsOf(term)' = T
    BY DEF Frequencies, DocumentsOf
  <1> HIDE DEF f, g, S, T, doc
  <1>4. T = S \cup {doc}
    BY <1>1, <1>2
  <1>5. IsFiniteSet(T) /\ IsFiniteSet(S)
    <2>1. IsFiniteSet(S)
      BY DEF S
    <2> QED BY <2>1, <1>4, FS_AddElement
  <1>6. SumFunctionOnSet(g, T) = SumFunctionOnSet(f, S) + 1
    <2>1. CASE doc \in S
      <3>1. T = S
        BY <1>4, <2>1
      <3>2. \A d \in S : f[d] \in Int /\ g[d] \in Int
        BY <1>2
      <3>3. \A d \in S \ {doc} : g[d] = f[d]
        BY <1>2
      <3>4. SumFunctionOnSet(g, S) = SumFunctionOnSet(f, S) + (g[doc] - f[doc])
        BY <2>1, <3>2, <3>3, <1>5, SetSumChange
      <3>5. g[doc] - f[doc] = 1
        BY <1>1, <1>2
      <3> QED BY <3>1, <3>4, <3>5
    <2>2. CASE doc \notin S
      <3>1. T \ {doc} = S /\ doc \in T
        BY <1>4, <2>2
      <3>2. f[doc] = 0 /\ g[doc] = 1
        BY <1>1, <1>2, <2>2
      <3>3. \A d \in T : g[d] \in Int
        BY <1>2
      <3>4. SumFunctionOnSet(g, T) = g[doc] + SumFunctionOnSet(g, T \ {doc})
        BY <3>1, <3>3, <1>5, SetSumRemove
      <3>5. \A d \in S : f[d] \in Int /\ g[d] = f[d]
        BY <1>2, <2>2
      <3>6. SumFunctionOnSet(f, S) = SumFunctionOnSet(g, S)
        BY <3>5, <1>5, SetSumSame
      <3>7. SumFunctionOnSet(f, S) \in Int
        BY <3>5, <1>5, SetSumRemove
      <3>8. SumFunctionOnSet(g, T) = 1 + SumFunctionOnSet(f, S)
        BY <3>1, <3>2, <3>4, <3>6
      <3> QED BY <3>7, <3>8
    <2> QED BY <2>1, <2>2
  <1> QED BY <1>3, <1>5, <1>6 DEF f, S

LEMMA OtherFrequencies ==
  ASSUME Inv, NEW term \in Terms, add_term(term), NEW t \in Terms, t # term
  PROVE  Frequencies(t)' = Frequencies(t) /\ DocumentsOf(t)' = DocumentsOf(t)
  <1>1. \A d \in Docs : tf'[d][t] = tf[d][t]
    BY AddTermTypes
  <1> QED BY <1>1 DEF Frequencies, DocumentsOf

LEMMA TermSums ==
  ASSUME Inv, SumsInv, SortKept, NEW term \in Terms, add_term(term)
  PROVE  SumsInv' /\ SortKept'
  <1>1. /\ document_sizes \in Seq(Nat) /\ document_sizes # << >> /\ all_occurrences \in Nat
        /\ term_occurrences \in Seq(Nat) /\ DOMAIN term_occurrences = DOMAIN postings
        /\ \A t \in DOMAIN term_map : t \in Terms /\ term_map[t] \in DOMAIN postings
        /\ DOMAIN postings = 1..Len(postings) /\ Len(postings) \in Nat
        /\ Len(term_occurrences) = Len(postings)
    BY DEF Inv, BuilderTypeOK, IdsAreBijective, add_term
  <1>2. all_occurrences' = all_occurrences + 1 /\ sorted_terms' = sorted_terms
    BY DEF add_term
  <1>3. SumFunction(document_sizes') = SumFunction(document_sizes) + 1
    <2>1. Len(document_sizes) \in DOMAIN document_sizes
      BY <1>1
    <2>2. document_sizes' = [document_sizes EXCEPT ![Len(document_sizes)] =
                               document_sizes[Len(document_sizes)] + 1]
      BY DEF add_term
    <2> QED BY <2>1, <2>2, <1>1, SumBumped
  <1>4. CASE term \in DOMAIN term_map
    <2> DEFINE id == term_map[term]
    <2>1. term_occurrences' = [term_occurrences EXCEPT ![id] = term_occurrences[id] + 1]
          /\ term_map' = term_map
      BY <1>4 DEF add_term, AddKnownTerm
    <2>2. id \in DOMAIN term_occurrences
      BY <1>1, <1>4
    <2>3. SumFunction(term_occurrences') = SumFunction(term_occurrences) + 1
      BY <2>1, <2>2, <1>1, SumBumped
    <2>4. ASSUME NEW t \in DOMAIN term_map
          PROVE  /\ IsFiniteSet(DocumentsOf(t)')
                 /\ term_occurrences'[term_map[t]] = SumFunctionOnSet(Frequencies(t), DocumentsOf(t))'
      <3>1. IsFiniteSet(DocumentsOf(t))
            /\ term_occurrences[term_map[t]] = SumFunctionOnSet(Frequencies(t), DocumentsOf(t))
        BY DEF SumsInv
      <3>2. CASE t = term
        <4>1. /\ IsFiniteSet(DocumentsOf(term)')
              /\ SumFunctionOnSet(Frequencies(term), DocumentsOf(term))' =
                   SumFunctionOnSet(Frequencies(term), DocumentsOf(term)) + 1
          BY <3>1, <3>2, FrequencySums
        <4>2. term_occurrences'[id] = term_occurrences[id] + 1
          BY <2>1, <2>2, <1>1
        <4> QED BY <3>1, <3>2, <4>1, <4>2
      <3>3. CASE t # term
        <4>1. term_map[t] # id
          BY <3>3, <1>4 DEF Inv, IdsAreBijective
        <4>2. term_occurrences'[term_map[t]] = term_occurrences[term_map[t]]
          BY <4>1, <2>1, <2>2, <1>1
        <4>3. Frequencies(t)' = Frequencies(t) /\ DocumentsOf(t)' = DocumentsOf(t)
          BY <3>3, <1>1, OtherFrequencies
        <4>4. SumFunctionOnSet(Frequencies(t), DocumentsOf(t))'
                = SumFunctionOnSet(Frequencies(t), DocumentsOf(t))
          BY <4>3 DEF Frequencies, DocumentsOf
        <4> QED BY <3>1, <4>2, <4>3, <4>4
      <3> QED BY <3>2, <3>3
    <2>5. SumsInv'
      BY <2>1, <2>3, <2>4, <1>2, <1>3 DEF SumsInv
    <2>6. SortKept'
      BY <2>1, <1>2 DEF SortKept, written_terms
    <2> QED BY <2>5, <2>6
  <1>5. CASE term \notin DOMAIN term_map
    <2> DEFINE id == Len(postings) + 1
    <2>1. /\ term_occurrences' = Append(term_occurrences, 1)
          /\ DOMAIN term_map' = DOMAIN term_map \cup {term} /\ term_map'[term] = id
          /\ \A t \in DOMAIN term_map : term_map'[t] = term_map[t]
      BY <1>5 DEF add_term, AddNewTerm
    <2>2. SumFunction(term_occurrences') = SumFunction(term_occurrences) + 1
      BY <2>1, <1>1, SumAppended
    <2>3. /\ term_occurrences'[id] = 1
          /\ \A i \in DOMAIN postings : term_occurrences'[i] = term_occurrences[i]
      BY <2>1, <1>1
    <2>4. IsFiniteSet(DocumentsOf(term)') /\ SumFunctionOnSet(Frequencies(term), DocumentsOf(term))' = 1
      <3>1. DocumentsOf(term) = {}
        BY <1>5 DEF DocumentsOf, Inv, InvertsCollection
      <3>2. IsFiniteSet(DocumentsOf(term)) /\ SumFunctionOnSet(Frequencies(term), DocumentsOf(term)) = 0
        BY <3>1, FS_EmptySet, SetSumEmpty
      <3> QED BY <3>2, FrequencySums
    <2>5. ASSUME NEW t \in DOMAIN term_map
          PROVE  /\ IsFiniteSet(DocumentsOf(t)')
                 /\ term_occurrences'[term_map'[t]] = SumFunctionOnSet(Frequencies(t), DocumentsOf(t))'
      <3>1. IsFiniteSet(DocumentsOf(t))
            /\ term_occurrences[term_map[t]] = SumFunctionOnSet(Frequencies(t), DocumentsOf(t))
        BY DEF SumsInv
      <3>2. t # term /\ t \in Terms /\ term_map'[t] = term_map[t] /\ term_map[t] \in DOMAIN postings
        BY <2>1, <1>1, <1>5
      <3>3. Frequencies(t)' = Frequencies(t) /\ DocumentsOf(t)' = DocumentsOf(t)
        BY <3>2, OtherFrequencies
      <3>4. SumFunctionOnSet(Frequencies(t), DocumentsOf(t))'
              = SumFunctionOnSet(Frequencies(t), DocumentsOf(t))
        BY <3>3 DEF Frequencies, DocumentsOf
      <3> QED BY <2>3, <3>1, <3>2, <3>3, <3>4
    <2>6. SumsInv'
      BY <2>1, <2>2, <2>3, <2>4, <2>5, <1>2, <1>3 DEF SumsInv
    <2>7. SortKept'
      BY <2>1, <1>2 DEF SortKept, written_terms
    <2> QED BY <2>6, <2>7
  <1> QED BY <1>4, <1>5
(* A sort moves the counts with the terms: the same sum in another order.  *)
LEMMA SortSums ==
  ASSUME Inv, SumsInv, sort_terms
  PROVE  SumsInv' /\ SortKept'
  <1> DEFINE S   == DOMAIN term_map
             ids == DOMAIN postings
  <1>1. PICK order, n : Resorted(order, n)
    BY SortShape
  <1> DEFINE D   == 1..n
             p   == [i \in D |-> term_map[order[i]]]
             old == term_occurrences
             new == term_occurrences'
  <1>2. /\ n \in Nat /\ order \in [D -> S] /\ DOMAIN order = D /\ Len(order) = n
        /\ \A i, j \in D : i < j => order[i] < order[j]
        /\ \A i, j \in D : order[i] = order[j] => i = j
        /\ sorted_terms' = << order >>
        /\ new = [i \in D |-> old[term_map[order[i]]]]
        /\ DOMAIN term_map' = S
        /\ \A t \in S : term_map'[t] \in D /\ order[term_map'[t]] = t
        /\ \A i \in D : term_map'[order[i]] = i
        /\ all_occurrences' = all_occurrences /\ document_sizes' = document_sizes /\ tf' = tf
    <2>1. n \in Nat /\ order \in [D -> S] /\ DOMAIN order = D
      BY <1>1 DEF Resorted
    <2>2. Len(order) = n
      BY <2>1
    <2>3. \A i, j \in D : i < j => order[i] < order[j]
      BY <1>1 DEF Resorted
    <2>4. \A i, j \in D : order[i] = order[j] => i = j
      BY <1>1 DEF Resorted
    <2>5. /\ sorted_terms' = << order >>
          /\ new = [i \in D |-> old[term_map[order[i]]]]
          /\ DOMAIN term_map' = S
          /\ \A t \in S : term_map'[t] \in D /\ order[term_map'[t]] = t
          /\ \A i \in D : term_map'[order[i]] = i
          /\ all_occurrences' = all_occurrences /\ document_sizes' = document_sizes /\ tf' = tf
      BY <1>1 DEF Resorted
    <2> QED BY <2>1, <2>2, <2>3, <2>4, <2>5
  <1>3. /\ old \in Seq(Nat) /\ DOMAIN old = ids
        /\ \A t \in S : term_map[t] \in ids
        /\ \A s, t \in S : term_map[s] = term_map[t] => s = t
        /\ \A id \in ids : \E t \in S : term_map[t] = id
    BY DEF Inv, BuilderTypeOK, IdsAreBijective
  <1>4. SumFunction(new) = SumFunction(old)
    <2>1. SumFunction(old) = SumFunctionOnSet(old, ids) /\ SumFunction(new) = SumFunctionOnSet(new, D)
      BY <1>2, <1>3 DEF SumFunction
    <2>2. IsFiniteSet(D)
      BY <1>2, FS_Interval
    <2>3. \A i \in D : new[i] \in Int /\ p[i] \in ids /\ old[p[i]] = new[i]
      BY <1>2, <1>3
    <2>4. \A i, j \in D : p[i] = p[j] => i = j
      BY <1>2, <1>3
    <2>5. \A id \in ids : \E i \in D : p[i] = id
      <3> SUFFICES ASSUME NEW id \in ids PROVE \E i \in D : p[i] = id
        OBVIOUS
      <3>1. PICK t \in S : term_map[t] = id
        BY <1>3
      <3> QED BY <3>1, <1>2
    <2> HIDE DEF D, p, old, new, ids
    <2>6. SumFunctionOnSet(new, D) = SumFunctionOnSet(old, ids)
      BY <2>2, <2>3, <2>4, <2>5, SetSumMap
    <2> QED BY <2>1, <2>6
  <1>5. \A t \in S : new[term_map'[t]] = old[term_map[t]]
    BY <1>2
  <1>6. SumsInv'
    <2>1. SumFunction(document_sizes)' = SumFunction(document_sizes)
      BY <1>2
    <2>2. ASSUME NEW t \in S
          PROVE  /\ IsFiniteSet(DocumentsOf(t))'
                 /\ new[term_map'[t]] = SumFunctionOnSet(Frequencies(t), DocumentsOf(t))'
      <3>1. Frequencies(t)' = Frequencies(t) /\ DocumentsOf(t)' = DocumentsOf(t)
        BY <1>2 DEF Frequencies, DocumentsOf
      <3>2. IsFiniteSet(DocumentsOf(t))
            /\ old[term_map[t]] = SumFunctionOnSet(Frequencies(t), DocumentsOf(t))
        BY DEF SumsInv
      <3> QED BY <3>1, <3>2, <1>5
    <2> QED BY <2>1, <2>2, <1>2, <1>4 DEF SumsInv
  <1>7. SortKept'
    <2>1. sorted_terms'[1] = order
      BY <1>2
    <2>2. \A i \in D : order[i] \in S /\ \A j \in 1..(i - 1) : order[j] < order[i]
      BY <1>2
    <2> QED BY <1>2, <2>1, <2>2 DEF SortKept, written_terms
  <1> QED BY <1>6, <1>7

LEMMA NextSums == Inv /\ SumsInv /\ SortKept /\ [BuilderNext]_builder_vars => SumsInv' /\ SortKept'
  <1> SUFFICES ASSUME Inv, SumsInv, SortKept, [BuilderNext]_builder_vars PROVE SumsInv' /\ SortKept'
    OBVIOUS
  <1>1. CASE \E doc \in Docs : add_document(doc)
    BY <1>1, DocumentSums
  <1>2. CASE \E term \in Terms : add_term(term)
    BY <1>2, TermSums
  <1>3. CASE sort_terms \/ SortBeforeWrite
    BY <1>3, SortSums DEF SortBeforeWrite
  <1>4. CASE UNCHANGED builder_vars
    <2>1. /\ all_occurrences' = all_occurrences /\ document_sizes' = document_sizes
          /\ term_occurrences' = term_occurrences /\ term_map' = term_map /\ tf' = tf
          /\ sorted_terms' = sorted_terms
      BY <1>4 DEF builder_vars
    <2> QED BY <2>1 DEF SumsInv, DocumentsOf, Frequencies, SortKept, written_terms
  <1> QED BY <1>1, <1>2, <1>3, <1>4 DEF BuilderNext

LEMMA InitSums == BuilderInit => SumsInv /\ SortKept
  <1> SUFFICES ASSUME BuilderInit PROVE SumsInv /\ SortKept
    OBVIOUS
  <1>1. /\ all_occurrences = 0 /\ document_sizes = << >> /\ term_occurrences = << >>
        /\ DOMAIN term_map = {} /\ sorted_terms = << >>
    BY DEF BuilderInit
  <1>2. SumFunction(<< >>) = 0
    <2>1. DOMAIN << >> = {}
      OBVIOUS
    <2>2. SumFunctionOnSet(<< >>, {}) = 0
      BY SetSumEmpty
    <2> QED BY <2>1, <2>2 DEF SumFunction
  <1> QED BY <1>1, <1>2 DEF SumsInv, SortKept

(* An increasing list has as many postings as documents.                   *)
LEMMA ListLength ==
  ASSUME NEW list \in Seq(Posting), NEW S,
         \A i, j \in DOMAIN list : i < j => list[i].doc < list[j].doc,
         \A i \in DOMAIN list : list[i].doc \in S,
         \A d \in S : \E i \in DOMAIN list : list[i].doc = d
  PROVE  Len(list) = Cardinality(S)
  <1> DEFINE n == Len(list)
             D == 1..n
             f == [i \in D |-> list[i].doc]
  <1>1. n \in Nat /\ DOMAIN list = D
    OBVIOUS
  <1>2. \A i \in D : list[i].doc \in Nat
    <2>1. \A i \in D : list[i] \in Posting
      BY <1>1
    <2> QED BY <2>1, DocsAssumption DEF Posting
  <1>3. \A i, j \in D : i # j => f[i] # f[j]
    <2> SUFFICES ASSUME NEW i \in D, NEW j \in D, i # j PROVE list[i].doc # list[j].doc
      OBVIOUS
    <2>1. i < j \/ j < i
      BY <1>1
    <2> QED BY <2>1, <1>1, <1>2
  <1>4. f \in [D -> S] /\ \A d \in S : \E i \in D : f[i] = d
    BY <1>1
  <1>5. f \in Bijection(D, S)
    BY <1>3, <1>4 DEF Bijection, Injection, Surjection, IsInjective
  <1>6. IsFiniteSet(D) /\ Cardinality(D) = n
    BY <1>1, FS_Interval
  <1> HIDE DEF D, f
  <1>7. Cardinality(D) = Cardinality(S)
    BY <1>5, <1>6, FS_Bijection DEF ExistsBijection
  <1> QED BY <1>6, <1>7

(* The rows follow: row i is about the i-th term, whose identifier is i.   *)
LEMMA RowsFollow == Inv /\ SumsInv /\ SortKept => RowsAgree
  <1> SUFFICES ASSUME Inv, SumsInv, SortKept, SortIsCurrent,
                      NEW i \in DOMAIN written_terms
               PROVE  LET t == written_terms[i]
                      IN  /\ \A j \in 1..(i - 1) : written_terms[j] < t
                          /\ written_dfs[i] = Cardinality(DocumentsOf(t))
                          /\ { <<written_documents[i][j], written_counts[i][j]>> :
                                  j \in DOMAIN written_documents[i] }
                               = { <<d, tf[d][t]>> : d \in DocumentsOf(t) }
                          /\ written_occurrences[i] =
                               SumFunctionOnSet(Frequencies(t), DocumentsOf(t))
    BY DEF RowsAgree, SumsInv
  <1> DEFINE t    == written_terms[i]
             list == postings[term_map[t]]
             S    == DocumentsOf(t)
  <1>1. /\ t \in DOMAIN term_map /\ term_map[t] = i
        /\ \A j \in 1..(i - 1) : written_terms[j] < t
    BY DEF SortKept, SortIsCurrent
  <1>2. t \in Terms /\ term_map[t] \in DOMAIN postings /\ list \in Seq(Posting)
    BY <1>1 DEF Inv, BuilderTypeOK
  <1>3. /\ \A j, k \in DOMAIN list : j < k => list[j].doc < list[k].doc
        /\ \A j \in DOMAIN list : list[j].freq = tf[list[j].doc][t]
        /\ \A d \in Docs : tf[d][t] > 0 => \E j \in DOMAIN list : list[j].doc = d
    BY <1>1, <1>2 DEF Inv, ListsIncrease, InvertsCollection
  <1>4. \A j \in DOMAIN list : list[j].doc \in Docs /\ list[j].freq \in Nat \ {0}
    <2>1. \A j \in DOMAIN list : list[j] \in Posting
      BY <1>2
    <2> QED BY <2>1 DEF Posting
  <1>5. \A j \in DOMAIN list : list[j].doc \in S
    BY <1>3, <1>4 DEF DocumentsOf
  <1>6. \A d \in S : d \in Docs /\ \E j \in DOMAIN list : list[j].doc = d
    BY <1>3 DEF DocumentsOf
  <1>7. /\ written_dfs[i] = Len(list)
        /\ DOMAIN written_documents[i] = DOMAIN list
        /\ \A j \in DOMAIN list : /\ written_documents[i][j] = list[j].doc
                                   /\ written_counts[i][j] = list[j].freq
    BY DEF written_dfs, written_documents, written_counts
  <1> HIDE DEF list, S
  <1>8. Len(list) = Cardinality(S)
    BY <1>2, <1>3, <1>5, <1>6, ListLength
  <1>9. { <<written_documents[i][j], written_counts[i][j]>> : j \in DOMAIN list }
          = { <<d, tf[d][t]>> : d \in S }
    <2>1. ASSUME NEW j \in DOMAIN list
          PROVE  <<written_documents[i][j], written_counts[i][j]>> \in { <<d, tf[d][t]>> : d \in S }
      BY <1>3, <1>5, <1>7
    <2>2. ASSUME NEW d \in S
          PROVE  \E j \in DOMAIN list :
                   <<d, tf[d][t]>> = <<written_documents[i][j], written_counts[i][j]>>
      <3>1. PICK j \in DOMAIN list : list[j].doc = d
        BY <1>6
      <3> QED BY <3>1, <1>3, <1>7
    <2> QED BY <2>1, <2>2
  <1>10. written_occurrences[i] = SumFunctionOnSet(Frequencies(t), S)
    BY <1>1 DEF SumsInv, written_occurrences, S
  <1> QED BY <1>1, <1>7, <1>8, <1>9, <1>10 DEF S

(* Every row of every file is about the term on the same line of the terms *)
(* file, says of it what was added, and the occurrences add up to those of *)
(* the batch, by term and by document.                                     *)
THEOREM RowsCorrect == BuilderSpec => []RowsAgree
  <1>1. BuilderSpec => [](Inv /\ SumsInv /\ SortKept)
    <2>1. BuilderInit => Inv /\ SumsInv /\ SortKept
      BY InitInv, InitSums
    <2>2. Inv /\ SumsInv /\ SortKept /\ [BuilderNext]_builder_vars => (Inv /\ SumsInv /\ SortKept)'
      BY NextInv, NextSums
    <2> QED BY <2>1, <2>2, PTL DEF BuilderSpec
  <1> QED BY <1>1, RowsFollow, PTL
=============================================================================
