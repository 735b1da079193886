------------------------------ MODULE History -------------------------------
(***************************************************************************)
(* GET /wallets/{id}/transactions beside the money path: a client reads    *)
(* its statement newest-first, one page of `limit' rows after the other,   *)
(* until a page is short.  Every page is a SELECT of its own with LIMIT    *)
(* and OFFSET, so rows that commit in between shift what the next page     *)
(* shows.                                                                  *)
(***************************************************************************)
EXTENDS LedgerService, SequencesExt

CONSTANTS
    PageWallet,   \* the wallet id in the URL
    Limit         \* page size

ASSUME HistoryAssumption == Limit \in Nat \ {0}

VARIABLES
    reader,   \* current_user of the requests
    pages,    \* the pages received so far, each a sequence of ledger rows
    status,   \* of the last response; 0 before the first
    before    \* ledger rows committed at the first page

pageVars == <<reader, pages, status, before>>

(* The rows of wallet w among the first n committed ones.                  *)
RowsUpTo(w, n) == {ledger[i] : i \in {j \in 1..n : ledger[j].account = w}}

(* SELECT ... WHERE wallet_id ORDER BY seq DESC over what is committed.    *)
Statement(w) ==
    CHOOSE s \in SetToSeqs(RowsUpTo(w, Len(ledger))) :
       \A i, j \in DOMAIN s : i < j => s[i].seq > s[j].seq

(* As many of rows m..n as there are.                                      *)
Rows(s, m, n) == SubSeq(s, m, IF n < Len(s) THEN n ELSE Len(s))

(* Mutation: the offset is off by one after the first page.                *)
BugGetEntriesForWallet(w, offset) ==
    Rows(Statement(w), IF offset = 0 THEN 1 ELSE offset, offset + Limit)

get_entries_for_wallet(w, offset) == Rows(Statement(w), offset + 1, offset + Limit)

(* The client has had its last page or was refused.                        *)
Ended == status = 404 \/ (pages # <<>> /\ Len(Last(pages)) < Limit)

list_transactions ==
    /\ ~Ended
    /\ IF WalletError([wallet |-> PageWallet, user |-> reader]) # "none"
       THEN status' = 404 /\ UNCHANGED pages
       ELSE /\ status' = 200
            /\ pages' = Append(pages, get_entries_for_wallet(PageWallet, Limit * Len(pages)))
    /\ before' = IF pages = <<>> THEN Len(ledger) ELSE before
    /\ UNCHANGED <<reader, vars>>

HistoryInit == reader \in Users /\ pages = <<>> /\ status = 0 /\ before = 0

(* The client beside the money path.                                       *)
HistoryNext == list_transactions \/ (Next /\ UNCHANGED pageVars)
HistorySpec == Init /\ HistoryInit /\ [][HistoryNext]_<<vars, pageVars>>
-----------------------------------------------------------------------------
(* The lines of the pages received, and the rows on them.                  *)
Lines == UNION {{k} \X DOMAIN pages[k] : k \in DOMAIN pages}
Shown == UNION {ToSet(pages[k]) : k \in DOMAIN pages}

(* Money keeps moving while a client pages, and still the pages together   *)
(* are the statement as it stood at one moment between the first and the   *)
(* last page: no row is skipped and no newer row without the older ones;   *)
(* a stranger is shown none.  A row is shown again only because a newer    *)
(* one pushed it there.                                                    *)
PagesAreAStatement ==
    /\ Ended => IF status = 404 THEN pages = <<>>
                ELSE \E n \in before..Len(ledger) : Shown = RowsUpTo(PageWallet, n)
    /\ Cardinality(Lines) - Cardinality(Shown) <=
          Cardinality(RowsUpTo(PageWallet, Len(ledger)) \ RowsUpTo(PageWallet, before))
=============================================================================
