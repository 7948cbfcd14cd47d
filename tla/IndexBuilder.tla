----------------------------- MODULE IndexBuilder -----------------------------
(***************************************************************************)
(* irk::basic_index_builder (index/builder.hpp): the inverted index of one *)
(* batch of documents, built in memory and then written out.               *)
(*                                                                         *)
(* Term identifiers count from 1 here and from 0 in the code.  A term is   *)
(* an integer, its rank in lexicographic order.  A std::optional is a      *)
(* sequence of at most one element.                                        *)
(***************************************************************************)
EXTENDS Integers, FiniteSets, Sequences, FiniteSetsExt

CONSTANTS
  Docs,    (* the document identifiers that callers use *)
  Terms    (* the terms of the documents                *)

ASSUME DocsAssumption  == Docs \subseteq Nat
ASSUME TermsAssumption == Terms \subseteq Int

VARIABLES
  current_doc,       (* current_doc_                                         *)
  all_occurrences,   (* all_occurrences_                                     *)
  sorted_terms,      (* sorted_terms_, an optional                           *)
  postings,          (* postings_: term id -> sequence of [doc, freq]        *)
  term_occurrences,  (* term_occurrences_: term id -> count                  *)
  document_sizes,    (* document_sizes_, in the order documents were added   *)
  term_map,          (* term_map_: term -> term id                           *)
  tf                 (* history: how often a term was added to a document    *)

builder_vars == <<current_doc, all_occurrences, sorted_terms, postings,
                  term_occurrences, document_sizes, term_map, tf>>

BuilderInit ==
  /\ current_doc = 0
  /\ all_occurrences = 0
  /\ sorted_terms = << >>
  /\ postings = << >>
  /\ term_occurrences = << >>
  /\ document_sizes = << >>
  /\ term_map = [t \in {} |-> 0]
  /\ tf = [d \in Docs |-> [t \in Terms |-> 0]]

-----------------------------------------------------------------------------
(* add_document(doc).  The builder does not look at doc; its callers count *)
(* upwards (the assembler from next_id), which is the second conjunct.     *)
add_document(doc) ==
  /\ document_sizes = << >> \/ doc > current_doc
  /\ current_doc' = doc
  /\ document_sizes' = Append(document_sizes, 0)
  /\ UNCHANGED <<all_occurrences, sorted_terms, postings, term_occurrences,
                 term_map, tf>>

(* The last posting of a list.                                             *)
Back(list) == list[Len(list)]

(* A slip that ListsIncrease catches: always a posting of its own.         *)
AddPosting_again(list, doc) == Append(list, [doc |-> doc, freq |-> 1])

(* A slip that InvertsCollection catches: always the last posting.         *)
AddPosting_in_place(list, doc) ==
  [list EXCEPT ![Len(list)] = [doc |-> Back(list).doc, freq |-> Back(list).freq + 1]]

(* The list of a term that occurs once more in the current document.       *)
AddPosting(list, doc) ==
  IF Back(list).doc = doc
  THEN [list EXCEPT ![Len(list)] = [doc |-> doc, freq |-> Back(list).freq + 1]]
  ELSE Append(list, [doc |-> doc, freq |-> 1])

AddKnownTerm(term) ==
  LET id == term_map[term]
  IN  /\ postings' = [postings EXCEPT ![id] = AddPosting(@, current_doc)]
      /\ term_occurrences' = [term_occurrences EXCEPT ![id] = @ + 1]
      /\ UNCHANGED term_map

(* A slip that BuilderTypeOK catches: the new identifier is the last one   *)
(* given.                                                                  *)
AddNewTerm_from_zero(term) ==
  /\ term_map' = [t \in DOMAIN term_map \cup {term} |->
                    IF t = term THEN Len(postings) ELSE term_map[t]]
  /\ postings' = Append(postings, << [doc |-> current_doc, freq |-> 1] >>)
  /\ term_occurrences' = Append(term_occurrences, 1)

(* A slip that IdsAreBijective catches: the identifier is the number of    *)
(* terms sorted last, not of all terms.                                    *)
AddNewTerm_after_sorted(term) ==
  LET id == IF sorted_terms = << >> THEN Len(postings) + 1 ELSE Len(sorted_terms[1])
  IN  /\ term_map' = [t \in DOMAIN term_map \cup {term} |->
                        IF t = term THEN id ELSE term_map[t]]
      /\ postings' = Append(postings, << [doc |-> current_doc, freq |-> 1] >>)
      /\ term_occurrences' = Append(term_occurrences, 1)

AddNewTerm(term) ==
  LET id == Len(postings) + 1
  IN  /\ term_map' = [t \in DOMAIN term_map \cup {term} |->
                        IF t = term THEN id ELSE term_map[t]]
      /\ postings' = Append(postings, << [doc |-> current_doc, freq |-> 1] >>)
      /\ term_occurrences' = Append(term_occurrences, 1)

(* add_term(term), once there is a document to add it to.                  *)
add_term(term) ==
  /\ document_sizes # << >>
  /\ all_occurrences' = all_occurrences + 1
  /\ document_sizes' = [document_sizes EXCEPT ![Len(document_sizes)] = @ + 1]
  /\ IF term \in DOMAIN term_map THEN AddKnownTerm(term) ELSE AddNewTerm(term)
  /\ tf' = [tf EXCEPT ![current_doc][term] = @ + 1]
  /\ UNCHANGED <<current_doc, sorted_terms>>

(* The sequences that list a set of terms in increasing order, each once.  *)
Orderings(S) ==
  { s \in [1..Cardinality(S) -> S] :
      /\ \A i, j \in DOMAIN s : i < j => s[i] < s[j]
      /\ \A t \in S : \E i \in DOMAIN s : s[i] = t }

(* A slip that RowsAgree catches: the occurrences stay where they were.    *)
sort_terms_but_occurrences ==
  \E order \in Orderings(DOMAIN term_map) :
    /\ sorted_terms' = << order >>
    /\ postings' = [i \in DOMAIN order |-> postings[term_map[order[i]]]]
    /\ term_map' = [t \in DOMAIN term_map |->
                      CHOOSE i \in DOMAIN order : order[i] = t]
    /\ UNCHANGED <<current_doc, all_occurrences, document_sizes, term_occurrences, tf>>

(* sort_terms(): terms get new identifiers in lexicographic order, and the *)
(* structures indexed by identifier move along.                            *)
sort_terms ==
  \E order \in Orderings(DOMAIN term_map) :
    /\ sorted_terms' = << order >>
    /\ postings' = [i \in DOMAIN order |-> postings[term_map[order[i]]]]
    /\ term_occurrences' =
         [i \in DOMAIN order |-> term_occurrences[term_map[order[i]]]]
    /\ term_map' = [t \in DOMAIN term_map |->
                      CHOOSE i \in DOMAIN order : order[i] = t]
    /\ UNCHANGED <<current_doc, all_occurrences, document_sizes, tf>>

(* The sorting writers (terms, document ids, counts and frequencies) sort  *)
(* first, but only if nothing was ever sorted.                             *)
SortBeforeWrite == sorted_terms = << >> /\ sort_terms

BuilderNext ==
  \/ \E doc \in Docs : add_document(doc)
  \/ \E term \in Terms : add_term(term)
  \/ sort_terms
  \/ SortBeforeWrite

BuilderSpec == BuilderInit /\ [][BuilderNext]_builder_vars

-----------------------------------------------------------------------------
(* What the writers put into the files of the index, after the sort.       *)
written_terms       == sorted_terms[1]
written_documents   == [i \in DOMAIN written_terms |->
                          LET list == postings[term_map[written_terms[i]]]
                          IN  [j \in DOMAIN list |-> list[j].doc]]
written_counts      == [i \in DOMAIN written_terms |->
                          LET list == postings[term_map[written_terms[i]]]
                          IN  [j \in DOMAIN list |-> list[j].freq]]
written_dfs         == [i \in DOMAIN written_terms |->
                          Len(postings[term_map[written_terms[i]]])]
written_occurrences == term_occurrences
written_sizes       == document_sizes

-----------------------------------------------------------------------------
Posting == [doc : Docs, freq : Nat \ {0}]

BuilderTypeOK ==
  /\ current_doc \in Nat
  /\ document_sizes # << >> => current_doc \in Docs
  /\ all_occurrences \in Nat
  /\ sorted_terms \in Seq(Seq(Terms)) /\ Len(sorted_terms) <= 1
  /\ postings \in Seq(Seq(Posting))
  /\ term_occurrences \in Seq(Nat)
  /\ document_sizes \in Seq(Nat)
  /\ DOMAIN term_map \subseteq Terms
  /\ \A t \in DOMAIN term_map : term_map[t] \in DOMAIN postings
  /\ tf \in [Docs -> [Terms -> Nat]]

(* Identifiers and terms stay in one-to-one correspondence through every   *)
(* new term and every sort.                                                *)
IdsAreBijective ==
  /\ Len(term_occurrences) = Len(postings)
  /\ \A s, t \in DOMAIN term_map : term_map[s] = term_map[t] => s = t
  /\ \A id \in DOMAIN postings : \E t \in DOMAIN term_map : term_map[t] = id

(* Every posting list is non-empty and strictly increasing in the document *)
(* and reaches no further than the current document.  The list builder     *)
(* encodes differences of documents and the readers search by bisection.   *)
ListsIncrease ==
  \A id \in DOMAIN postings :
    /\ postings[id] # << >>
    /\ \A i \in DOMAIN postings[id] : postings[id][i].doc <= current_doc
    /\ \A i, j \in DOMAIN postings[id] :
         i < j => postings[id][i].doc < postings[id][j].doc

(* The index is the collection inverted: the postings of a term are the    *)
(* documents it was added to, each with its number of occurrences, and a   *)
(* term without postings was never added.                                  *)
InvertsCollection ==
  /\ \A t \in DOMAIN term_map :
       LET list == postings[term_map[t]]
       IN  /\ \A i \in DOMAIN list : list[i].freq = tf[list[i].doc][t]
           /\ \A d \in Docs : tf[d][t] > 0 => \E i \in DOMAIN list : list[i].doc = d
  /\ \A t \in Terms \ DOMAIN term_map : \A d \in Docs : tf[d][t] = 0

(* Row i of every file is about the term on line i of the terms file, as   *)
(* long as no new term was added since the terms were sorted: the          *)
(* occurrences are written by identifier, the other files by sorted term.  *)
(* And the occurrences of the terms and the sizes of the documents add up  *)
(* to those of the batch.                                                  *)
SortIsCurrent ==
  sorted_terms # << >> /\ Len(written_terms) = Cardinality(DOMAIN term_map)

DocumentsOf(t) == { d \in Docs : tf[d][t] > 0 }
Frequencies(t) == [d \in Docs |-> tf[d][t]]

RowsAgree ==
  /\ all_occurrences = SumFunction(document_sizes)
  /\ all_occurrences = SumFunction(term_occurrences)
  /\ SortIsCurrent =>
    \A i \in DOMAIN written_terms :
      LET t == written_terms[i]
      IN  /\ \A j \in 1..(i - 1) : written_terms[j] < t
          /\ written_dfs[i] = Cardinality(DocumentsOf(t))
          /\ { <<written_documents[i][j], written_counts[i][j]>> :
                  j \in DOMAIN written_documents[i] } = { <<d, tf[d][t]>> : d \in DocumentsOf(t) }
          /\ written_occurrences[i] = SumFunctionOnSet(Frequencies(t), DocumentsOf(t))
=============================================================================
