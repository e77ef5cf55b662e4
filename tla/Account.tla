------------------------------- MODULE Account -------------------------------
(***************************************************************************)
(* The gxc.account contract: the nickname of an account and whether it is  *)
(* a partner.                                                              *)
(*                                                                         *)
(* A row keeps the account's name and the flag in one 64 bit word: a name  *)
(* of at most twelve characters leaves the low four bits free.  The row is *)
(* found by the word without those bits, so that `low` is all that is left *)
(* to model of it.  Handlers are operators over the table, because other   *)
(* contracts call them inline and see what the one before has left.        *)
(***************************************************************************)
EXTENDS Integers, FiniteSets

CONSTANTS
    Account,        \* account names
    SystemAccount,  \* system::default_account
    Nick,           \* nicknames
    ValidNick       \* those of 6 to 24 bytes, of letters, digits and Hangul

CONSTANTS           \* the calls explored
    Named,          \* accounts that get a nickname or a flag
    Flags,          \* values the flag is set to
    AuthSets        \* sets of accounts that sign an action

NoNick == "no nickname"

ASSUME AccountAssumption ==
    /\ SystemAccount \in Account
    /\ NoNick \notin Nick /\ ValidNick \subseteq Nick
    /\ Named \subseteq Account /\ Flags \subseteq BOOLEAN
    /\ AuthSets \subseteq SUBSET Account

VARIABLE accounts   \* Account -> the row of table accounts

NoAccount == [there |-> FALSE]

AccountRow == [there : {TRUE}, low : 0 .. 1, nickname : Nick \cup {NoNick}]

IsPartner(n) == accounts[n].there /\ accounts[n].low = 1

\* mutation: the index of partners is searched
PartnerTook(table, nick) ==
    \E m \in Account : table[m].there /\ table[m].low = 1 /\ table[m].nickname = nick

Taken(table, nick) == \E m \in Account : table[m].there /\ table[m].nickname = nick

CanSetNick(table, n, nick, auth) ==
    /\ nick \in ValidNick
    /\ {SystemAccount, n} \cap auth # {}
    /\ ~Taken(table, nick)
    /\ table[n].there => SystemAccount \in auth

\* the low bits of the word are kept
NickSet(table, n, nick) ==
    [table EXCEPT ![n] = [there |-> TRUE, nickname |-> nick,
                          low |-> IF table[n].there THEN table[n].low ELSE 0]]

Flag(is_partner) == IF is_partner THEN 1 ELSE 0

CanSetPartner(table, n, is_partner) ==
    table[n].there => table[n].low # Flag(is_partner)

\* mutation: the row is written anew
PartnerAlone(table, n, is_partner) ==
    [table EXCEPT ![n] = [there |-> TRUE, low |-> Flag(is_partner), nickname |-> NoNick]]

\* no signature is asked for
PartnerSet(table, n, is_partner) ==
    [table EXCEPT ![n] =
        [there |-> TRUE, low |-> Flag(is_partner),
         nickname |-> IF table[n].there THEN table[n].nickname ELSE NoNick]]

SetNick(n, nick, auth) ==
    /\ CanSetNick(accounts, n, nick, auth)
    /\ accounts' = NickSet(accounts, n, nick)

SetPartner(n, is_partner) ==
    /\ CanSetPartner(accounts, n, is_partner)
    /\ accounts' = PartnerSet(accounts, n, is_partner)

AccountInit == accounts = [n \in Account |-> NoAccount]

AccountCall(auth) ==
    \E n \in Named :
        \/ \E nick \in Nick : SetNick(n, nick, auth)
        \/ \E is_partner \in Flags : SetPartner(n, is_partner)

AccountTypeOK == accounts \in [Account -> AccountRow \cup {NoAccount}]

\* A nickname names one account: the index by nickname, which every setnick
\* consults, has at most one row of it, whoever set it and whichever contract
\* made the row.
NicksUnique ==
    \A m, n \in Account :
        /\ accounts[m].there /\ accounts[n].there /\ m # n
        => accounts[m].nickname # accounts[n].nickname \/ accounts[m].nickname = NoNick
=============================================================================
