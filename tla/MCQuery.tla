------------------------------ MODULE MCQuery -------------------------------
(***************************************************************************)
(* The query application's parts on small instances. Answering a question  *)
(* takes what generation returns freely, whatever the ledger decided, so   *)
(* the parts share no state: the initial state picks the one to run, and   *)
(* one run explores both.                                                  *)
(***************************************************************************)
EXTENDS UsageLedger, QueryService, TLC

VARIABLE part

ASSUME LedgerAssumption /\ QueryAssumption

-----------------------------------------------------------------------------

(* Two documents of one tenant, the first in two versions, and one of       *)
(* another: passages that one search ranks high and the other low or not at *)
(* all, sentences without content words, and questions that the best        *)
(* passage covers fully, by a third and by less.                            *)
MCDocs == 1..3
MCOwner == <<"t", "t", "u">>
MCWords == {"u", "v", "w", "x", "y", "z"}
Passage(sentences, distance) == [sentences |-> sentences, distance |-> distance]
MCCorpus ==
    << << [chunks   |-> <<Passage(<<{"x"}, {"z"}>>, 0), Passage(<<{"z"}>>, 1)>>,
           entities |-> {"x"}],
          [chunks   |-> <<Passage(<<{"y", "z"}>>, 2)>>,
           entities |-> {"y"}] >>,
       << [chunks   |-> <<Passage(<<{"x", "y"}>>, 3), Passage(<<{}, {"y"}, {"x"}>>, 4)>>,
           entities |-> {"y"}] >>,
       << [chunks   |-> <<Passage(<<{"x"}>>, 0)>>,
           entities |-> {"x"}] >> >>
MCQuestions == {{"w", "x", "y"}, {"w", "x", "u", "v"}}
MCAnswers == {{}, {"x"}}

-----------------------------------------------------------------------------

vars == <<part, ledgerVars, queryVars>>

Init ==
    /\ part \in {"ledger", "service"}
    /\ LedgerInit /\ QueryInit

Next ==
    /\ UNCHANGED part
    /\ \/ part = "ledger" /\ LedgerNext /\ UNCHANGED queryVars
       \/ part = "service" /\ QueryNext /\ UNCHANGED ledgerVars

Spec == Init /\ [][Next]_vars

Symmetry == Permutations(Requests)

=============================================================================
