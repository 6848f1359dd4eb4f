---------------------------- MODULE SheetPublish ----------------------------
(*
Publishing an audit as a copy of a spreadsheet template:
GoogleSheetsTemplatePublisher of google_sheets.py.  Every step is one
remote call, any of them may fail, and somebody may edit the copy
between two of them.

A tab has rows of which a word says what they hold, rows with a
dropdown, and maybe a cell to the right of the columns that a clear
reaches.  Columns, formats and texts are left out.
*)
EXTENDS Integers, FiniteSets, Sequences

CONSTANTS Templates,   \* workbooks that are copied: sequences of tabs
          Publication, \* what is published: number of tickets, detail tabs
          Protected,   \* protected_tabs of the contract
          TabName,     \* names of tabs, in workbooks and in what is published
          NumRows,     \* rows of a tab, beneath the header
          MaxEdits     \* bound on foreign edits

Rows == 1..NumRows
NoTickets == -1
Words == {"nothing", "template", "sent", "edit"}
EmptyRows == [r \in Rows |-> "nothing"]
Tabs(names) == [name : names, header : BOOLEAN, rows : [Rows -> Words], rules : SUBSET Rows,
                crossing : BOOLEAN, beyond : BOOLEAN]
TabSet == Tabs(TabName)

\* A workbook has a tab, no two of its tabs have one name, and neither have two
\* of the tables, which come in a mapping.
SheetAssumption ==
    /\ NumRows \in Nat \ {0} /\ MaxEdits \in Nat /\ "Tickets" \notin Protected
    /\ \A w \in Templates :
          /\ w \in Seq(TabSet) /\ w # <<>>
          /\ \A i, j \in DOMAIN w : w[i].name = w[j].name => i = j
    /\ \A q \in Publication :
          /\ q.tickets \in {NoTickets} \cup 0..NumRows /\ q.rows \in Rows
          /\ q.details \in Seq(TabName)
          /\ \A i, j \in DOMAIN q.details : q.details[i] = q.details[j] => i = j

VARIABLES template,   \* the tabs of the template
          publication,
          driveCopies, \* files.copy is not refused
          at,         \* the next call, or how the publish ended
          book,       \* the tabs of the copy
          knownTabs,      \* names of the tabs, as spreadsheets.get gave them
          hasRule,    \* the first ticket row has a dropdown
          todo,       \* detail tabs to be written
          read,       \* written tabs that were read back
          differs,    \* a read back is not what was sent
          edits,
          late        \* tabs edited after they were read back

sheetVars == <<template, publication, driveCopies, at, book, knownTabs, hasRule, todo, read, differs, edits, late>>

ToSet(s) == {s[i] : i \in DOMAIN s}
Names(tabs) == {tabs[i].name : i \in DOMAIN tabs}
Position(tabs, name) == CHOOSE i \in DOMAIN tabs : tabs[i].name = name
Tab(name) == book[Position(book, name)]
Blank(name) == [name |-> name, header |-> FALSE, rows |-> EmptyRows,
                rules |-> {}, crossing |-> FALSE, beyond |-> FALSE]
CopyOf(name) == <<"Copy of", name>>

SheetInit ==
    /\ template \in Templates /\ publication \in Publication /\ driveCopies \in BOOLEAN
    /\ at = "asked" /\ book = <<>> /\ knownTabs = {} /\ hasRule = FALSE
    /\ todo = publication.details /\ read = {} /\ differs = FALSE /\ edits = 0 /\ late = {}

SheetEnded == {"refused", "no header", "raised", "receipt", "receipt error"}
sheetInputs == <<template, publication, driveCopies>>
Details == ToSet(publication.details)

\* Nothing is copied for tables that break the contract.
CheckTables ==
    /\ at = "asked"
    /\ at' = IF Details \cap (Protected \cup {"Tickets"}) # {} \/ ~publication.valid
             THEN "refused" ELSE "copy"
    /\ UNCHANGED <<sheetInputs, book, knownTabs, hasRule, todo, read, differs, edits, late>>

CopyTemplate ==
    /\ at = "copy" /\ driveCopies
    /\ book' = template /\ at' = "metadata"
    /\ UNCHANGED <<sheetInputs, knownTabs, hasRule, todo, read, differs, edits, late>>

\* files.copy is refused: a new workbook, with a tab that nobody asked for.
CreateWorkbook ==
    /\ at = "copy" /\ ~driveCopies
    /\ book' = <<Blank("Sheet1")>> /\ at' = "tabs"
    /\ UNCHANGED <<sheetInputs, knownTabs, hasRule, todo, read, differs, edits, late>>

\* copyTo drops dropdowns that refer to another tab.
Arrived(tab) == [tab EXCEPT !.name = CopyOf(@), !.rules = IF tab.crossing THEN {} ELSE @]

CopyTab ==
    /\ at = "tabs"
    /\ book' = Append(book, Arrived(template[Len(book)]))
    /\ at' = IF Len(book) = Len(template) THEN "rename" ELSE "tabs"
    /\ UNCHANGED <<sheetInputs, knownTabs, hasRule, todo, read, differs, edits, late>>

\* Mutant: the dropdowns that copyTo dropped are not set again.
RenamedWithoutRules(i) == [book[i + 1] EXCEPT !.name = template[i].name]

Renamed(i) == [book[i + 1] EXCEPT !.name = template[i].name, !.rules = @ \cup template[i].rules]

\* One batch: the first tab goes, the copies get their names and dropdowns back.
RenameTabs ==
    /\ at = "rename"
    /\ book' = [i \in DOMAIN template |-> Renamed(i)] /\ at' = "metadata"
    /\ UNCHANGED <<sheetInputs, knownTabs, hasRule, todo, read, differs, edits, late>>

ReadMetadata ==
    /\ at = "metadata"
    /\ knownTabs' = Names(book) /\ at' = "header"
    /\ UNCHANGED <<sheetInputs, book, hasRule, todo, read, differs, edits, late>>

WantsTickets == publication.tickets # NoTickets
DataRows == IF WantsTickets THEN publication.tickets ELSE 0
HeaderIsThere == "Tickets" \in knownTabs /\ Tab("Tickets").header

LocateHeader ==
    /\ at = "header"
    /\ at' = IF WantsTickets /\ ~HeaderIsThere THEN "no header" ELSE "add"
    /\ UNCHANGED <<sheetInputs, book, knownTabs, hasRule, todo, read, differs, edits, late>>

\* The tables that the copy has no tab for, in their order.
NewNames == Details \ knownTabs
Place(name) == CHOOSE i \in DOMAIN publication.details : publication.details[i] = name
NewTabs ==
    {new \in [1..Cardinality(NewNames) -> NewNames] :
        /\ ToSet(new) = NewNames
        /\ \A i, j \in DOMAIN new : i < j => Place(new[i]) < Place(new[j])}

\* Tabs that stay before new ones: up to the tickets, else up to a protected tab.
TabsBefore ==
    LET guards == {Position(book, name) : name \in Protected \cap knownTabs}
    IN  IF "Tickets" \in knownTabs THEN Position(book, "Tickets")
        ELSE IF guards # {} THEN (CHOOSE i \in guards : \A j \in guards : i <= j) - 1
        ELSE Len(book)

Inserted(new, before) ==
    [i \in 1..(Len(book) + Len(new)) |->
        IF i <= before THEN book[i]
        ELSE IF i <= before + Len(new) THEN Blank(new[i - before])
        ELSE book[i - Len(new)]]

AddTabs ==
    /\ at = "add"
    /\ \E new \in NewTabs : book' = Inserted(new, TabsBefore)
    /\ at' = IF WantsTickets THEN "rules" ELSE "details"
    /\ UNCHANGED <<sheetInputs, knownTabs, hasRule, todo, read, differs, edits, late>>

\* Without tickets no rule is read.
FirstRowRules ==
    /\ at = "rules"
    /\ hasRule' = (DataRows > 0 /\ 1 \in Tab("Tickets").rules) /\ at' = "clear"
    /\ UNCHANGED <<sheetInputs, book, knownTabs, todo, read, differs, edits, late>>

WithTab(name, new) == [book EXCEPT ![Position(book, name)] = new]

ClearedTickets == [Tab("Tickets") EXCEPT !.rows = EmptyRows]

ClearTickets ==
    /\ at = "clear"
    /\ book' = WithTab("Tickets", ClearedTickets) /\ at' = "tickets"
    /\ UNCHANGED <<sheetInputs, knownTabs, hasRule, todo, read, differs, edits, late>>

Sent(rows, n) == [r \in Rows |-> IF r <= n THEN "sent" ELSE rows[r]]

WriteTickets ==
    /\ at = "tickets"
    /\ book' = WithTab("Tickets", [Tab("Tickets") EXCEPT !.rows = Sent(@, DataRows)])
    /\ at' = "dropdowns"
    /\ UNCHANGED <<sheetInputs, knownTabs, hasRule, todo, read, differs, edits, late>>

ExtendTicketDropdowns ==
    /\ at = "dropdowns"
    /\ book' = IF hasRule THEN WithTab("Tickets", [Tab("Tickets") EXCEPT !.rules = @ \cup 1..DataRows])
               ELSE book
    /\ at' = "details"
    /\ UNCHANGED <<sheetInputs, knownTabs, hasRule, todo, read, differs, edits, late>>

\* A detail tab is cleared, as far as the clear reaches and with the dropdowns of
\* what it clears, and then written.
ClearTab ==
    /\ at = "details" /\ todo # <<>>
    /\ book' = WithTab(Head(todo), [Tab(Head(todo)) EXCEPT !.rows = EmptyRows, !.rules = {}])
    /\ at' = "write"
    /\ UNCHANGED <<sheetInputs, knownTabs, hasRule, todo, read, differs, edits, late>>

WriteTab ==
    /\ at = "write"
    /\ book' = WithTab(Head(todo), [Tab(Head(todo)) EXCEPT !.rows = Sent(@, publication.rows)])
    /\ todo' = Tail(todo) /\ at' = "details"
    /\ UNCHANGED <<sheetInputs, knownTabs, hasRule, read, differs, edits, late>>

\* Created tabs get a green header, then everything written is read back.
FormatCreated ==
    /\ at = "details" /\ todo = <<>> /\ at' = "verify"
    /\ UNCHANGED <<sheetInputs, book, knownTabs, hasRule, todo, read, differs, edits, late>>

WrittenTabs == Details \cup (IF WantsTickets THEN {"Tickets"} ELSE {})

\* Mutant: only the rows that were sent are looked at.
MatchesRowsSent(name) ==
    \A r \in 1..(IF name = "Tickets" THEN DataRows ELSE publication.rows) : Tab(name).rows[r] = "sent"

\* Tickets are read as far as they go, or one row; a detail tab as a whole.
Matches(name) ==
    LET tab == Tab(name)
    IN  IF name = "Tickets"
        THEN IF DataRows = 0 THEN tab.rows[1] = "nothing" ELSE \A r \in 1..DataRows : tab.rows[r] = "sent"
        ELSE ~tab.beyond /\ tab.rows = Sent(EmptyRows, publication.rows)

VerifyWritten(name) ==
    /\ at = "verify" /\ name \in WrittenTabs \ read
    /\ read' = read \cup {name} /\ differs' = (differs \/ ~Matches(name))
    /\ UNCHANGED <<sheetInputs, at, book, knownTabs, hasRule, todo, edits, late>>

IssueReceipt ==
    /\ at = "verify" /\ read = WrittenTabs
    /\ at' = IF differs THEN "receipt error" ELSE "receipt"
    /\ UNCHANGED <<sheetInputs, book, knownTabs, hasRule, todo, read, differs, edits, late>>

CallFails ==
    /\ at \notin SheetEnded \cup {"asked"} /\ at' = "raised"
    /\ UNCHANGED <<sheetInputs, book, knownTabs, hasRule, todo, read, differs, edits, late>>

Edit(i, r, word) ==
    /\ edits < MaxEdits /\ edits' = edits + 1
    /\ book' = [book EXCEPT ![i].rows[r] = word]
    /\ late' = late \cup ({book[i].name} \cap read)
    /\ UNCHANGED <<sheetInputs, at, knownTabs, hasRule, todo, read, differs>>

SheetNext ==
    \/ CheckTables \/ CopyTemplate \/ CreateWorkbook \/ CopyTab \/ RenameTabs
    \/ ReadMetadata \/ LocateHeader \/ AddTabs \/ FirstRowRules \/ ClearTickets
    \/ WriteTickets \/ ExtendTicketDropdowns \/ ClearTab \/ WriteTab \/ FormatCreated
    \/ \E name \in WrittenTabs : VerifyWritten(name)
    \/ IssueReceipt \/ CallFails
    \/ \E i \in DOMAIN book, r \in Rows, word \in {"nothing", "edit"} : Edit(i, r, word)

SheetSpec == SheetInit /\ [][SheetNext]_sheetVars

--------------------
\* A receipt is not issued over what somebody changed before the read back, nor over
\* what the template had: each written range, and each detail tab as a whole, holds
\* what was sent unless it was changed afterwards.
ReceiptIsTrue ==
    at = "receipt" => \A name \in WrittenTabs \ late :
        LET sent == IF name = "Tickets" THEN DataRows ELSE publication.rows
            range == IF name = "Tickets" THEN 1..(IF sent = 0 THEN 1 ELSE sent) ELSE Rows
        IN  /\ \A r \in range : Tab(name).rows[r] = IF r <= sent THEN "sent" ELSE "nothing"
            /\ name # "Tickets" => ~Tab(name).beyond

\* Tab by tab or in one call, the copy is the template, dropdowns included.
CopyIsTheTemplate == at = "metadata" /\ edits = 0 => book = template

\* Nothing is created for tables that break the contract, and nothing is written
\* to a copy without the header.
RefusalWritesNothing ==
    /\ at = "refused" => book = <<>>
    /\ at = "no header" /\ edits = 0 => book = template
    /\ at = "receipt" /\ WantsTickets => Tab("Tickets").header

\* The tabs are the template's, in its order, and the new ones, in theirs; new tabs
\* follow the tickets.
Precedes(name, other) == Position(book, name) < Position(book, other)
TabsAreArranged ==
    /\ Len(book) = Len(template) + Cardinality(NewNames)
    /\ Names(book) = Names(template) \cup Details
    /\ \A i, j \in DOMAIN template : i < j => Precedes(template[i].name, template[j].name)
    /\ \A name, other \in NewNames : Place(name) < Place(other) => Precedes(name, other)
    /\ "Tickets" \in Names(template) =>
          \A name \in NewNames : Position(book, name) - Position(book, "Tickets") \in 1..Cardinality(NewNames)

\* Without foreign edits the copy holds the tickets and nothing beneath them, each
\* with the dropdown that the first one has; the other tabs are the template's.
PublishedAsAsked ==
    at = "receipt" /\ edits = 0 =>
        /\ TabsAreArranged
        /\ \A tab \in ToSet(template) : tab.name \notin WrittenTabs => tab \in ToSet(book)
        /\ WantsTickets =>
              LET old == template[Position(template, "Tickets")]
                  new == Tab("Tickets")
              IN  /\ \A r \in Rows : new.rows[r] = IF r <= DataRows THEN "sent" ELSE "nothing"
                  /\ new.rules = old.rules \cup (IF 1 \in old.rules THEN 1..DataRows ELSE {})

\* What a receipt says is on the copy, which began as the template; and what was
\* refused was not written.
ReceiptsAreOfTheCopy ==
    ReceiptIsTrue /\ CopyIsTheTemplate /\ RefusalWritesNothing /\ PublishedAsAsked

=============================================================================
