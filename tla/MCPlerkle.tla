----------------------------- MODULE MCPlerkle -----------------------------
EXTENDS Plerkle

Tx(slot, keys, logs, is_vote, is_err) ==
  [account_keys |-> keys, log_messages |-> logs, inner_instructions |-> <<>>,
   instructions |-> <<"ix">>, slot |-> slot, is_vote |-> is_vote, is_err |-> is_err]

\* Of the program; of another one, and without logs; one that failed; a vote.
MCTransactions ==
  {Tx(1, <<"payer", "bubblegum">>, <<"lines">>, FALSE, FALSE),
   Tx(2, <<"payer", "other">>, <<>>, FALSE, FALSE),
   Tx(3, <<"payer", "bubblegum">>, <<"lines">>, FALSE, TRUE),
   Tx(4, <<"vote">>, <<"lines">>, TRUE, FALSE)}

MCAccountUpdates ==
  {[pubkey |-> "tree", owner |-> o, data |-> "data", slot |-> 1, is_startup |-> TRUE] :
     o \in {"gummyroll", "other"}}

MCSlotUpdates == {[slot |-> 1, parent |-> <<>>, status |-> "Rooted"]}

MCBlocks == {[slot |-> 1, blockhash |-> "hash", rewards |-> <<>>]}

Select(accounts, transactions) ==
  [accounts_selector |-> accounts, transaction_selector |-> transactions]

\* Nothing is said; programs are named; everything; votes beside a program.
MCConfigs ==
  {Select(<<>>, <<>>),
   Select(<<[accounts |-> {}, owners |-> {"gummyroll"}]>>, <<{"bubblegum"}>>),
   Select(<<[accounts |-> {"*"}, owners |-> {}]>>, <<{"*"}>>),
   Select(<<[accounts |-> {}, owners |-> {}]>>, <<{"all_votes", "bubblegum"}>>)}
=============================================================================
