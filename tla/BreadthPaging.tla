--------------------------- MODULE BreadthPaging ---------------------------
(***************************************************************************)
(* providers/breadth.py and providers/continuation.py: how the pages of    *)
(* one run of a breadth target cut up what the provider lists.  Each       *)
(* operation is a pure function of the continuation state and of the       *)
(* answer to one request; the run follows the continuations.               *)
(*                                                                         *)
(* Items are numbered in the order of (published_at, provider_item_id).    *)
(* The provider is external: its listing may grow between two requests,    *)
(* anywhere in that order, and may list an item twice.                     *)
(***************************************************************************)
EXTENDS Integers, Sequences
LOCAL INSTANCE FiniteSetsExt
LOCAL INSTANCE SequencesExt

CONSTANTS
    MaxListed,      \* items a provider lists
    MaxLimit,       \* batch_limit, at most 100 in the code
    MaxPageNumber,  \* the last page news_all asks for, 1000 in the code
    MaxOffset,      \* the last offset electricity asks for, ten million in the code
    MaxHistory,     \* max_history_files of the target, at most five in the code
    MaxFetches,     \* bound on the requests of one run
    LastArrival     \* the last request at which a new item may appear

ASSUME PagingAssumption ==
    /\ {MaxListed, MaxLimit, MaxPageNumber, MaxOffset, MaxFetches, LastArrival} \subseteq Nat \ {0}
    /\ MaxHistory \in Nat

Listable == 1 .. MaxListed

\* What a row becomes: facts, facts validate_factual_payload refuses, a rejection by
\* identity alone, or nothing that can be named.
RowKinds == {"valid", "invalid", "unreadable", "untraceable"}

Operations == {"news_all", "company_news", "electricity", "submissions"}

\* A provider: the operation, the kind of each item, the request at which it is first
\* listed, the items in the frozen window, the item listed twice (0: none) and whether
\* with other facts, the items moved to each history file, the limit of the target and
\* the rows the provider serves at most for it.
ListedAt(c, n) == {i \in Listable : c.since[i] <= n}

\* The rows of a set of items, in order, with the twin next to its double.
Rows(c, items) ==
    LET sorted == SetToSortSeq(items, <)
    IN  FlattenSeq([k \in 1 .. Len(sorted) |->
            IF sorted[k] = c.twin THEN <<sorted[k], sorted[k]>> ELSE <<sorted[k]>>])

\* The continuation state; 0 stands for an absent page, offset, key or file.
FirstState == [page |-> 0, offset |-> 0, key |-> 0, file |-> 0, files |-> <<>>]

\* decode_continuation of a state the adapter encoded, which encode_continuation runs on
\* its own result.  An empty state is accepted.  (It holds as many files as
\* max_history_files can allow.)
StateDecodes(operation, s) ==
    \/ s = FirstState
    \/ operation = "news_all" /\ s.page \in 2 .. MaxPageNumber
    \/ operation = "electricity" /\ s.offset \in 1 .. MaxOffset
    \/ operation = "company_news" /\ s.key > 0
    \/ /\ operation = "submissions"
       /\ IsInjective(s.files)
       /\ s.file \notin Range(s.files)
       /\ s.file = 0 => s.key > 0

\* _deduplicate_payloads: one identity with two different facts.
Conflict(c, items) == c.differs /\ Len(SelectSeq(items, LAMBDA i : i = c.twin)) > 1

Refused == [outcome |-> "refused", emitted |-> {}, rejected |-> {}, next |-> FirstState]

\* fetch, after the operation has cut its page: the items left are validated, those that
\* fail are rejected by identity, and the rest deduplicated.  Past the last page number
\* the run ends as incomplete.
Answered(c, page, rejected, more, next) ==
    LET valid == SelectSeq(page, LAMBDA i : c.kind[i] = "valid")
        incomplete == more /\ next.page > MaxPageNumber
    IN  IF Conflict(c, valid) \/ (more /\ ~incomplete /\ ~StateDecodes(c.operation, next)) THEN Refused
        ELSE [outcome |-> IF incomplete THEN "incomplete" ELSE IF more THEN "more" ELSE "done",
              emitted |-> Range(valid),
              rejected |-> rejected \cup {i \in Range(page) : c.kind[i] = "invalid"},
              next |-> IF more /\ ~incomplete THEN next ELSE FirstState]

Unreadable(c, rows) == {i \in Range(rows) : c.kind[i] = "unreadable"}

Untraceable(c, rows) == \E i \in Range(rows) : c.kind[i] = "untraceable"

Parsed(c, rows) == SelectSeq(rows, LAMBDA i : c.kind[i] \in {"valid", "invalid"})

Slice(rows, after, count) == SubSeq(rows, after + 1, Min({after + count, Len(rows)}))

\* marketaux: numbered pages of the window, checked against the total the answer states.
NewsAll(c, n, s) ==
    LET page == IF s.page = 0 THEN 1 ELSE s.page
        listing == Rows(c, ListedAt(c, n) \cap c.window)
        before == (page - 1) * c.limit
        rows == Slice(listing, before, c.served)
        found == Len(listing)
        after == before + Len(rows)
        more == after < found
    IN  IF \/ Untraceable(c, rows)
           \/ found < after \/ (rows = <<>> /\ found > before)
           \/ more /\ Len(rows) # c.limit
        THEN Refused
        ELSE Answered(c, Parsed(c, rows), Unreadable(c, rows), more,
                      [FirstState EXCEPT !.page = page + 1])

\* finnhub: every request returns the whole listing, of any date; the page is what follows
\* the last key.  Conflicts are looked for before the page is cut.
CompanyNews(c, n, s) ==
    LET rows == Rows(c, ListedAt(c, n))
        payloads == SelectSeq(Parsed(c, rows), LAMBDA i : i \in c.window /\ i > s.key)
        single == SetToSortSeq(Range(payloads), <)
        page == Slice(single, 0, c.limit)
    IN  IF Untraceable(c, rows) \/ Conflict(c, payloads) THEN Refused
        ELSE Answered(c, page, Unreadable(c, rows), Len(single) > c.limit,
                      IF page = <<>> THEN FirstState ELSE [FirstState EXCEPT !.key = Last(page)])

\* eia: offsets into the window, advanced by the rows received.
Electricity(c, n, s) ==
    LET listing == Rows(c, ListedAt(c, n) \cap c.window)
        rows == Slice(listing, s.offset, c.served)
        total == Len(listing)
        confirmed == s.offset + Len(rows)
    IN  IF Untraceable(c, rows) \/ total < confirmed \/ (rows = <<>> /\ total > s.offset) THEN Refused
        ELSE Answered(c, Parsed(c, rows), Unreadable(c, rows), confirmed < total,
                      [FirstState EXCEPT !.offset = confirmed])

\* Mutant of Overlapping: a file that ends on the first day of the window is left out.
Overlapping_Strict(c) ==
    SelectSeq([f \in 1 .. Len(c.archive) |-> f],
              LAMBDA f : /\ Max(c.archive[f]) > Min(c.window)
                         /\ Min(c.archive[f]) <= Max(c.window))

\* The history files whose range of filing dates meets the window.
Overlapping(c) ==
    SelectSeq([f \in 1 .. Len(c.archive) |-> f],
              LAMBDA f : /\ Max(c.archive[f]) >= Min(c.window)
                         /\ Min(c.archive[f]) <= Max(c.window))

\* sec_edgar: the recent filings, then the history files that meet the window one by one,
\* each from its start.  The budget of files is checked before anything is emitted.
Submissions(c, n, s) ==
    LET rows == Rows(c, IF s.file = 0 THEN ListedAt(c, n) \ UNION Range(c.archive) ELSE c.archive[s.file])
        files == IF s = FirstState THEN Overlapping(c) ELSE s.files
        eligible == SelectSeq(rows, LAMBDA i : i \in c.window /\ i > s.key)
        payloads == Parsed(c, eligible)
        single == SetToSortSeq(Range(payloads), <)
        page == Slice(single, 0, c.limit)
        rejected == Unreadable(c, eligible)
    IN  IF Untraceable(c, rows) \/ Len(files) > MaxHistory \/ Conflict(c, payloads) THEN Refused
        ELSE IF Len(single) > c.limit
        THEN Answered(c, page, rejected, TRUE,
                      [FirstState EXCEPT !.key = Last(page), !.file = s.file, !.files = files])
        ELSE IF files # <<>>
        THEN Answered(c, page, rejected, TRUE,
                      [FirstState EXCEPT !.file = Head(files), !.files = Tail(files)])
        ELSE Answered(c, page, rejected, FALSE, FirstState)

Fetch(c, n, s) ==
    CASE c.operation = "news_all" -> NewsAll(c, n, s)
      [] c.operation = "company_news" -> CompanyNews(c, n, s)
      [] c.operation = "electricity" -> Electricity(c, n, s)
      [] c.operation = "submissions" -> Submissions(c, n, s)

NoPages == [outcome |-> "more", at |-> FirstState, times |-> [i \in Listable |-> 0], rejected |-> {}]

\* What a run has emitted and rejected after its n-th answer, and where it goes on.
Recorded(run, answer) ==
    [outcome |-> answer.outcome, at |-> answer.next,
     times |-> [i \in Listable |-> run.times[i] + IF i \in answer.emitted THEN 1 ELSE 0],
     rejected |-> run.rejected \cup answer.rejected]

\* The runs over a provider: each follows the continuations until there is no more.
Fetched(c) ==
    LET after[n \in 0 .. MaxFetches] ==
            IF n = 0 THEN {NoPages}
            ELSE UNION {IF run.outcome # "more" THEN {run}
                        ELSE {Recorded(run, answer) : answer \in {Fetch(c, n, run.at)}} :
                          run \in after[n - 1]}
    IN  after[MaxFetches]

-----------------------------------------------------------------------------
(* Property.                                                                *)

\* Where the history of the recent filings may have gone.
Archives == {<<>>, <<{1}>>, <<{1}, {2}>>, <<{1, 2}>>}

\* At most one item is not in order.
KindsOfItems ==
    {[i \in Listable |-> IF i = odd THEN k ELSE "valid"] : odd \in Listable, k \in RowKinds}

Windows == {Listable, 2 .. MaxListed, 2 .. MaxListed - 1}

Cases(operation) ==
    [operation : {operation}, kind : KindsOfItems, since : [Listable -> 1 .. LastArrival],
     window : Windows, twin : {0, 2, MaxListed}, differs : BOOLEAN,
     archive : IF operation = "submissions" THEN Archives ELSE {<<>>},
     limit : 1 .. MaxLimit, served : 1 .. MaxLimit]

\* The provider gives the adapter a reason to refuse a page: rows it cannot name, facts
\* or counts that contradict each other, or more than its bounds admit.
Troubled(c) ==
    \/ "untraceable" \in Range(c.kind)
    \/ c.differs /\ c.twin # 0
    \/ c.operation = "news_all" /\ c.served < c.limit
    \/ c.operation = "submissions" /\ Len(Overlapping(c)) > MaxHistory
    \/ c.operation = "electricity" /\ Len(Rows(c, c.window)) > MaxOffset + 1

\* The pages of a run cover what was listed in its window when it began, however the
\* listing grows between the requests: every valid item is emitted and every other one
\* rejected by identity, unless the provider's answers contradict themselves or the
\* last page number is passed, and then the run does not end as complete.  Nothing
\* outside the window is emitted, and nothing twice unless the provider repeats it or
\* moves it to a later page.
PagesCoverTheListing ==
    \A operation \in Operations : \A c \in Cases(operation) :
        c.served <= c.limit =>
        \A run \in Fetched(c) :
            /\ run.outcome # "more"
            /\ run.outcome = "refused" => Troubled(c)
            /\ run.outcome = "incomplete" => operation = "news_all"
            /\ run.outcome = "done" =>
                  \A i \in ListedAt(c, 1) \cap c.window :
                      IF c.kind[i] = "valid" THEN run.times[i] > 0 ELSE i \in run.rejected
            /\ \A i \in Listable : run.times[i] > 0 => c.kind[i] = "valid" /\ i \in c.window
            /\ (\/ operation \in {"company_news", "submissions"}
                \/ ListedAt(c, 1) = Listable /\ c.twin = 0) =>
                  \A i \in Listable : run.times[i] <= 1

=============================================================================
