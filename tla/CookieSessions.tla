--------------------------- MODULE CookieSessions ---------------------------
(***************************************************************************)
(* How CookieHttpSessionStrategy keeps the sessions of one browser in one  *)
(* cookie, each under an alias.  A cookie value is the sequence of its     *)
(* tokens; no tokens, no cookie.  An alias stands for the number that its  *)
(* hexadecimal digits denote.                                              *)
(***************************************************************************)
EXTENDS Naturals, SequencesExt

DEFAULT_ALIAS == 0

\* A map of aliases to session ids that has the entry alias -> id
WithId(ids, alias, id) ==
    [a \in DOMAIN ids \cup {alias} |-> IF a = alias THEN id ELSE ids[a]]

WithoutId(ids, alias) == [a \in DOMAIN ids \ {alias} |-> ids[a]]

\* A lone token is the id of the default alias; a last token without a partner
\* does not count, and of two entries for an alias the later one does.
getSessionIds(value) ==
    IF Len(value) = 1
    THEN [a \in {DEFAULT_ALIAS} |-> value[1]]
    ELSE LET Entry == 1..(Len(value) \div 2)
             alias(n) == value[2 * n - 1]
         IN  [a \in {alias(n) : n \in Entry} |->
                 value[2 * (CHOOSE n \in Entry :
                               /\ alias(n) = a
                               /\ \A later \in Entry : later > n => alias(later) # a)]]

\* Alias and id of each entry by turns, the entries in any order
Tokens(ids) ==
    LET aliases == SetToSeq(DOMAIN ids) IN
    [k \in 1..2 * Cardinality(DOMAIN ids) |->
        LET a == aliases[(k + 1) \div 2] IN IF k % 2 = 1 THEN a ELSE ids[a]]

\* Mutant: any session that is alone in the cookie goes without its alias
LoneCookieValue(ids) ==
    IF \E a \in DOMAIN ids : DOMAIN ids = {a}
    THEN <<ids[CHOOSE a \in DOMAIN ids : TRUE]>>
    ELSE Tokens(ids)

createSessionCookieValue(ids) ==
    IF DOMAIN ids = {DEFAULT_ALIAS} THEN <<ids[DEFAULT_ALIAS]>> ELSE Tokens(ids)

\* An alias that no session has, for one more session of the browser
getNewSessionAlias(ids) ==
    IF DOMAIN ids = {} THEN DEFAULT_ALIAS
    ELSE CHOOSE a \in {used + 1 : used \in DOMAIN ids} :
            \A used \in DOMAIN ids : used < a
=============================================================================
