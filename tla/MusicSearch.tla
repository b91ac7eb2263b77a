------------------------------ MODULE MusicSearch ------------------------------
(***************************************************************************)
(* The search screen, opened above a write, edit or settings screen.  A    *)
(* search empties the table and sends a request; its answer is appended to *)
(* musicData and inserted into the table row by row.  Nothing ties an      *)
(* answer to the search it belongs to, and a cell keeps what it was filled *)
(* with although rows are inserted above it.                               *)
(***************************************************************************)
EXTENDS Naturals, Sequences

CONSTANTS
    Songs,
    Keywords,      \* what a person types
    EmptyText,     \* may a person search for nothing?
    Found,         \* all songs maniadb has for a keyword
    Display,       \* how many of them an answer carries (display=100)
    NoResult,      \* the row that says there are none
    NoSong,        \* targetData before a row was tapped
    Failing,       \* may a request fail, or bring something else than XML?
    MaxAsked       \* bound: requests left open for a keyword

ASSUME FoundAssumption == Found \in [Keywords -> Seq(Songs)]
ASSUME NoResultAssumption == {NoResult, NoSong} \cap Songs = {}
ASSUME FlagsAssumption == {EmptyText, Failing} \subseteq BOOLEAN
ASSUME BoundsAssumption == Display \in Nat \ {0} /\ MaxAsked \in Nat \ {0}

Rows == Songs \cup {NoResult}

VARIABLES
    musicData,
    rows,              \* what the table's cells show
    loadingIndicator,  \* is it turning?
    requests,          \* requests of this screen on the way, per keyword
    lateRequests,      \* requests of screens that were closed
    searched,          \* history: the rows the last search has to bring
    overlap,           \* history: did it start before an answer had come?
    target,            \* what the delegate's sendData was last called with
    screen             \* "open", "closed" or "crashed"

table == <<musicData, rows>>
history == <<searched, overlap>>
vars  == <<table, loadingIndicator, requests, lateRequests, history, target, screen>>

TypeOK ==
    /\ musicData \in Seq(Rows) /\ rows \in Seq(Rows)
    /\ loadingIndicator \in BOOLEAN
    /\ requests \in [Keywords -> Nat] /\ lateRequests \in [Keywords -> Nat]
    /\ searched \in Seq(Rows) /\ overlap \in BOOLEAN
    /\ target \in Rows \cup {NoSong}
    /\ screen \in {"open", "closed", "crashed"}

Init ==
    /\ musicData = <<>> /\ rows = <<>>
    /\ loadingIndicator = FALSE
    /\ requests = [k \in Keywords |-> 0]
    /\ lateRequests = [k \in Keywords |-> 0]
    /\ searched = <<>> /\ overlap = FALSE
    /\ target = NoSong
    /\ screen = "open"

-------------------------------------------------------------------------------
Idle == \A k \in Keywords : requests[k] = 0
PersonActs ==
    \A k \in Keywords : requests[k] < MaxAsked /\ lateRequests[k] < MaxAsked

\* The rows of an answer: one that says so if there are no songs.
Result(k) == IF Found[k] = <<>> THEN <<NoResult>> ELSE Found[k]

\* searchButtonPressed empties the list and reloads the table.
EmptyTableUnreloaded ==   \* mutant: reloadData is missing
    musicData' = <<>> /\ UNCHANGED rows
EmptyTableRowsOnly ==   \* mutant: removeAll is missing
    rows' = <<>> /\ UNCHANGED musicData
EmptyTable == musicData' = <<>> /\ rows' = <<>>

Search(k) ==
    /\ screen = "open" /\ PersonActs
    /\ EmptyTable
    /\ loadingIndicator' = TRUE
    /\ requests' = [requests EXCEPT ![k] = @ + 1]
    /\ searched' = Result(k) /\ overlap' = ~Idle
    /\ UNCHANGED <<lateRequests, target, screen>>
SearchNothing ==
    /\ EmptyText
    /\ screen = "open" /\ PersonActs
    /\ EmptyTable
    /\ loadingIndicator' = TRUE
    /\ searched' = <<>> /\ overlap' = ~Idle
    /\ UNCHANGED <<requests, lateRequests, target, screen>>

\* insertRows from the top on: the new cells are filled by their row, the rows
\* below keep what they show.
InsertRows(data, n) == rows' = SubSeq(data, 1, n) \o rows
AppendResult(result) ==
    /\ musicData' = musicData \o result
    /\ InsertRows(musicData', Len(result))

\* Every item that is counted but not displayed is unwrapped too.
TooMany(k) == Len(Found[k]) > Display

AnswerUnasked(k) ==   \* mutant: the handler may run again
    /\ screen = "open"
    /\ requests' = [requests EXCEPT ![k] = @ - 1]
    /\ \/ /\ ~TooMany(k)
          /\ AppendResult(Result(k))
          /\ loadingIndicator' = FALSE
          /\ UNCHANGED screen
       \/ /\ Failing   \* no data
          /\ loadingIndicator' = FALSE
          /\ UNCHANGED <<table, screen>>
       \/ /\ TooMany(k) \/ Failing   \* a missing item or total is unwrapped
          /\ screen' = "crashed"
          /\ UNCHANGED <<table, loadingIndicator>>
    /\ UNCHANGED <<lateRequests, history, target>>
AnswerTurning(k) ==   \* mutant: without data the indicator goes on
    /\ screen = "open" /\ requests[k] > 0
    /\ requests' = [requests EXCEPT ![k] = @ - 1]
    /\ \/ /\ ~TooMany(k)
          /\ AppendResult(Result(k))
          /\ loadingIndicator' = FALSE
          /\ UNCHANGED screen
       \/ /\ Failing   \* no data
          /\ UNCHANGED <<table, loadingIndicator, screen>>
       \/ /\ TooMany(k) \/ Failing   \* a missing item or total is unwrapped
          /\ screen' = "crashed"
          /\ UNCHANGED <<table, loadingIndicator>>
    /\ UNCHANGED <<lateRequests, history, target>>
Answer(k) ==
    /\ screen = "open" /\ requests[k] > 0
    /\ requests' = [requests EXCEPT ![k] = @ - 1]
    /\ \/ /\ ~TooMany(k)
          /\ AppendResult(Result(k))
          /\ loadingIndicator' = FALSE
          /\ UNCHANGED screen
       \/ /\ Failing   \* no data
          /\ loadingIndicator' = FALSE
          /\ UNCHANGED <<table, screen>>
       \/ /\ TooMany(k) \/ Failing   \* a missing item or total is unwrapped
          /\ screen' = "crashed"
          /\ UNCHANGED <<table, loadingIndicator>>
    /\ UNCHANGED <<lateRequests, history, target>>

\* An answer to a screen that was closed fills a table nobody sees.
AnswerLate(k) ==
    /\ screen # "crashed" /\ lateRequests[k] > 0
    /\ lateRequests' = [lateRequests EXCEPT ![k] = @ - 1]
    /\ \/ (Failing \/ ~TooMany(k)) /\ UNCHANGED screen
       \/ (Failing \/ TooMany(k)) /\ screen' = "crashed"
    /\ UNCHANGED <<table, loadingIndicator, requests, history, target>>

\* The table asks again for a cell that was scrolled out of sight and back.
ShowCell(i) ==
    /\ screen = "open"
    /\ rows[i] # musicData[i]
    /\ rows' = [rows EXCEPT ![i] = musicData[i]]
    /\ UNCHANGED <<musicData, loadingIndicator, requests, lateRequests, history,
                   target, screen>>
-------------------------------------------------------------------------------
Close ==
    /\ screen' = "closed"
    /\ lateRequests' = [k \in Keywords |-> lateRequests[k] + requests[k]]
    /\ requests' = [k \in Keywords |-> 0]
    /\ UNCHANGED <<table, loadingIndicator, history>>

\* A row is tapped: what musicData has for it goes to the delegate.
SelectRowFirst(i) ==   \* mutant: indexPath.section for indexPath.row
    /\ screen = "open" /\ PersonActs
    /\ target' = musicData[1]
    /\ Close
SelectRow(i) ==
    /\ screen = "open" /\ PersonActs
    /\ target' = musicData[i]
    /\ Close
GoBack ==
    /\ screen = "open" /\ PersonActs
    /\ Close
    /\ UNCHANGED target
Open ==
    /\ screen = "closed"
    /\ musicData' = <<>> /\ rows' = <<>>
    /\ searched' = <<>> /\ overlap' = FALSE
    /\ loadingIndicator' = FALSE
    /\ screen' = "open"
    /\ UNCHANGED <<requests, lateRequests, target>>

Next ==
    \/ \E k \in Keywords : Search(k) \/ Answer(k) \/ AnswerLate(k)
    \/ \E i \in DOMAIN rows : ShowCell(i) \/ SelectRow(i)
    \/ SearchNothing \/ GoBack \/ Open

Spec == Init /\ [][Next]_vars

\* Alamofire calls the handler of every request, with an error if need be.
Fairness == \A k \in Keywords : WF_vars(Answer(k))
FairSpec == Spec /\ Fairness
-------------------------------------------------------------------------------
\* The table has as many rows as the list: it raises if an insertion finds that
\* the two differ.
TableConsistent == Len(rows) = Len(musicData)

\* Once every answer is there the list is what the last search has found, or
\* empty if its request has failed, unless it overlapped with an earlier one.
ListIsResult ==
    Idle /\ screen = "open" /\ ~overlap =>
        musicData = searched \/ (Failing /\ musicData = <<>>)

\* The song chosen is the one the row shows, with the same exception.
ChoosesRowShown ==
    [][~overlap => \A i \in DOMAIN rows : SelectRow(i) => target' = rows[i]]_vars

\* The indicator stops once a request has come to anything at all.
IndicatorStops ==
    ~Idle /\ screen = "open" ~> ~loadingIndicator \/ screen # "open"
===============================================================================
