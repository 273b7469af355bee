---------------------------- MODULE ImportFormat ----------------------------
(***************************************************************************)
(* From the text of an import file to rows that may be applied: CSV, the   *)
(* file, and one row.  Three machines that share no state; each judges     *)
(* every input of its own.                                                 *)
(***************************************************************************)
EXTENDS Integers, Sequences, FiniteSets, SequencesExt

(***************************************************************************)
(* CSV in and out: parseCsv of an import (imports/import-format.ts), and    *)
(* csvCell and renderCsv of an export (exports/export-service.ts).          *)
(*                                                                         *)
(* A text is a sequence of characters: "q" the double quote, "," the comma, *)
(* "n" and "r" line feed and carriage return, "=" one that starts a         *)
(* spreadsheet formula, "'" the apostrophe, "x" any other.                  *)
(***************************************************************************)

CONSTANTS
    TextLength,      \* bound on a raw text
    CellLength       \* bound on a cell to render

VARIABLES source, text, parsed

csvVars == <<source, text, parsed>>

Chars == {"q", ",", "n", "r", "=", "x"}

\* One loop step of parseCsv at position i.  skip: the character was consumed
\* together with the one before it.
Scan(t, s, i) ==
    LET ch == t[i]
        peek == IF i < Len(t) THEN t[i + 1] ELSE "end"
        cells == Append(s.row, s.field)
        endRow == [s EXCEPT !.rows = IF cells = << <<>> >> THEN @ ELSE Append(@, cells),
                            !.row = <<>>, !.field = <<>>, !.saw = FALSE]
    IN IF s.skip THEN [s EXCEPT !.skip = FALSE]
       ELSE IF s.inQuotes
       THEN IF ch # "q" THEN [s EXCEPT !.field = Append(@, ch)]
            ELSE IF peek = "q" THEN [s EXCEPT !.field = Append(@, "q"), !.skip = TRUE]
            ELSE [s EXCEPT !.inQuotes = FALSE]
       ELSE IF ch = "q" /\ s.field = <<>> THEN [s EXCEPT !.inQuotes = TRUE, !.saw = TRUE]
       ELSE IF ch = "," THEN [s EXCEPT !.row = cells, !.field = <<>>]
       ELSE IF ch = "n" THEN endRow
       ELSE IF ch = "r" THEN [endRow EXCEPT !.skip = (peek = "n")]
       ELSE [s EXCEPT !.field = Append(@, ch), !.saw = TRUE]

ParseCsv(t) ==
    LET start == [rows |-> <<>>, row |-> <<>>, field |-> <<>>, inQuotes |-> FALSE, saw |-> FALSE, skip |-> FALSE]
        s == FoldLeftDomain(LAMBDA acc, i : Scan(t, acc, i), start, t)
        last == Append(s.row, s.field)
    IN [open |-> s.inQuotes,
        rows |-> IF ~s.inQuotes /\ (s.saw \/ s.field # <<>> \/ s.row # <<>>) /\ last # << <<>> >>
                 THEN Append(s.rows, last) ELSE s.rows]

\* csvCell: a formula is defused with an apostrophe, then quoted where needed.
CsvCell(cell) ==
    LET safe == IF cell # <<>> /\ Head(cell) \in {"=", "r"} THEN <<"'">> \o cell ELSE cell
        doubled == FlattenSeq([k \in 1..Len(safe) |-> IF safe[k] = "q" THEN <<"q", "q">> ELSE <<safe[k]>>])
    IN IF {"q", ",", "n", "r"} \cap ToSet(safe) # {} THEN <<"q">> \o doubled \o <<"q">> ELSE safe

Join(parts, sep) ==
    FlattenSeq([k \in 1..Len(parts) |-> IF k = 1 THEN parts[k] ELSE sep \o parts[k]])

RenderCsv(rows) ==
    Join([k \in 1..Len(rows) |-> Join([n \in 1..Len(rows[k]) |-> CsvCell(rows[k][n])], <<",">>)], <<"r", "n">>)
      \o <<"r", "n">>

-----------------------------------------------------------------------------
Words(set, n) == UNION {[1..k -> set] : k \in 0..n}

Raw == [kind |-> "raw", rows |-> <<>>]

\* A raw text, or the rendering of a table of one or two rows.
CsvInit ==
    /\ \/ source = Raw /\ text \in Words(Chars \ {"="}, TextLength)
       \/ \E c, d \in Words(Chars, CellLength) :
             /\ source \in {[kind |-> "table", rows |-> <<<<c, d>>>>],
                            [kind |-> "table", rows |-> <<<<c, <<"x">>>>, <<d, <<"x">>>>>>]}
             /\ text = RenderCsv(source.rows)
    /\ parsed = [open |-> FALSE, rows |-> <<>>]

Parse ==
    /\ parsed = [open |-> FALSE, rows |-> <<>>]
    /\ parsed' = ParseCsv(text)
    /\ UNCHANGED <<source, text>>

CsvNext == Parse

-----------------------------------------------------------------------------
CsvTypeOK ==
    /\ parsed.open \in BOOLEAN
    /\ \A k \in 1..Len(parsed.rows) : parsed.rows[k] # << <<>> >>

Defused(rows) ==
    [k \in 1..Len(rows) |-> [n \in 1..Len(rows[k]) |->
        IF rows[k][n] # <<>> /\ Head(rows[k][n]) \in {"=", "r"} THEN <<"'">> \o rows[k][n] ELSE rows[k][n]]]

\* What an export writes, an import reads back cell by cell: quotes, commas and
\* line breaks inside cells survive, and only a formula gains its apostrophe.
ExportReadsBack ==
    source.kind = "table" /\ parsed.rows # <<>> => ~parsed.open /\ parsed.rows = Defused(source.rows)

\* "Swallowing a bare CR instead would merge two records into one field": without
\* quotes no line break is part of a cell, and the characters that are left are
\* the text's, in order, with one cell more than commas on every line.
BreaksSeparate ==
    source.kind = "raw" /\ "q" \notin ToSet(text) /\ parsed.rows # <<>> =>
       LET cells == FlattenSeq(parsed.rows)
           kept == SelectSeq(text, LAMBDA ch : ch \notin {",", "n", "r"})
           commas == Len(SelectSeq(text, LAMBDA ch : ch = ","))
       IN /\ FlattenSeq(cells) = kept
          /\ Len(cells) = commas + Len(parsed.rows)

-----------------------------------------------------------------------------
(***************************************************************************)
(* From the text of an import file to its rows (imports/import-format.ts):  *)
(* the same records as CSV and as NDJSON, the column checks, and what the   *)
(* command (imports/import-cli.ts) goes on with.                            *)
(*                                                                         *)
(* A table has a header and rows; a row gives a cell to the first columns   *)
(* of the header.  As NDJSON a row is an object with the columns it gives.  *)
(***************************************************************************)

CONSTANT MaxCells    \* bound on the cells of a row

VARIABLES header, widths, outcome

fileVars == <<header, widths, outcome>>

\* IMPORT_COLUMNS, with one optional column for all of them, and REJECTED_COLUMNS.
Required == {"sellerPublicKey", "amount"}

Known == Required \cup {"externalId"}

Rejected == {"status"}

Unwritten == [csv |-> {"none"}, json |-> {"none"}, csvRows |-> <<>>, jsonRows |-> <<>>]

FileInit ==
    /\ header \in UNION {[1..n -> Known \cup Rejected \cup {"bogus"}] : n \in 0..3}
    /\ widths \in UNION {[1..n -> 1..MaxCells] : n \in 0..2}
    /\ outcome = Unwritten

\* The checks both encodings make of the columns they saw.
ColumnErrors(seen) ==
    {<<"not importable", c>> : c \in seen \cap Rejected}
    \cup {<<"unknown", c>> : c \in seen \ Known}
    \cup {<<"missing", c>> : c \in Required \ seen}

\* A cell beyond the header is an error of its row; a missing one is empty.
ParseCsvText ==
    LET seen == ToSet(header)
        twice == {c \in seen : Cardinality({k \in 1..Len(header) : header[k] = c}) > 1}
        columns == {<<"duplicate", c>> : c \in twice} \cup ColumnErrors(seen)
        fits == SelectSeq(widths, LAMBDA w : w <= Len(header))
    IN IF header = <<>> THEN [errors |-> {<<"empty", "file">>}, rows |-> <<>>]
       ELSE IF columns # {} THEN [errors |-> columns, rows |-> <<>>]
       ELSE [errors |-> {<<"fields", "row">> : k \in {n \in 1..Len(widths) : widths[n] > Len(header)}},
             rows |-> [k \in 1..Len(fits) |-> seen]]

\* The columns are the keys of all the objects together.
ParseNdjsonText ==
    LET keys(w) == {header[k] : k \in {n \in 1..Len(header) : n <= w}}
        seen == UNION {keys(widths[k]) : k \in 1..Len(widths)}
        errors == IF widths = <<>> THEN {<<"empty", "file">>} ELSE ColumnErrors(seen)
    IN [errors |-> errors, rows |-> IF errors = {} THEN [k \in 1..Len(widths) |-> keys(widths[k])] ELSE <<>>]

EvaluateFile ==
    /\ outcome = Unwritten
    /\ outcome' = [csv |-> ParseCsvText.errors, json |-> ParseNdjsonText.errors,
                   csvRows |-> ParseCsvText.rows, jsonRows |-> ParseNdjsonText.rows]
    /\ UNCHANGED <<header, widths>>

FileNext == EvaluateFile

-----------------------------------------------------------------------------
FileTypeOK ==
    /\ ToSet(header) \subseteq Known \cup Rejected \cup {"bogus"}
    /\ Len(outcome.csvRows) <= Len(widths) /\ Len(outcome.jsonRows) <= Len(widths)

\* runImportCli goes on only without errors: then no row carries a lifecycle column
\* or an unknown one, in either encoding, and no record of the file was passed over.
NothingSlipsIn ==
    /\ outcome.csv = {} => /\ Len(outcome.csvRows) = Len(widths)
                           /\ \A k \in 1..Len(widths) : Required \subseteq outcome.csvRows[k] /\ outcome.csvRows[k] \subseteq Known
    /\ outcome.json = {} => /\ Len(outcome.jsonRows) = Len(widths)
                            /\ \A k \in 1..Len(widths) : outcome.jsonRows[k] \subseteq Known

\* The two encodings agree: when every row gives all the columns of a header without
\* repetitions, both refuse the file for the same columns or both take it whole.
EncodingsAgree ==
    /\ outcome # Unwritten /\ widths # <<>> /\ header # <<>>
    /\ \A k \in 1..Len(widths) : widths[k] = Len(header)
    /\ Cardinality(ToSet(header)) = Len(header)
    => outcome.csv = outcome.json /\ outcome.csvRows = outcome.jsonRows

-----------------------------------------------------------------------------
(***************************************************************************)
(* validateRow of imports/import-pipeline.ts: what a row of an import file  *)
(* must be, before the schema of the HTTP API (utils/validation.ts) has the *)
(* last word.                                                               *)
(*                                                                         *)
(* A cell is named for what the code can tell about it: "absent" (no such   *)
(* column), "" (empty) or a class of text.  Timestamps are "t1" < "t2".     *)
(***************************************************************************)

\* The columns and the classes of text each one meets.
Cells ==
    [externalId |-> {"absent", "", "id", "too long"},
     amount |-> {"", "text", "zero", "plain", "over the policy"},
     assetCode |-> {"absent", "", "XLM", "USDC"},
     assetIssuer |-> {"absent", "", "key", "text"},
     createdAt |-> {"absent", "", "text", "t1", "t2"},
     expiresAt |-> {"absent", "", "text", "t1", "t2"},
     expiresInDays |-> {"absent", "", "text", "fraction", "0", "30", "366"},
     memo |-> {"absent", "", "memo", "text"},
     metadata |-> {"absent", "", "object", "array", "text"},
     customerEmail |-> {"absent", "", "email", "text"},
     description |-> {"absent", "", "short", "too long"},
     sellerPublicKey |-> {"", "key", "text"}]

Columns == DOMAIN Cells

Good == [c \in Columns |-> IF c = "amount" THEN "plain" ELSE IF c = "sellerPublicKey" THEN "key" ELSE ""]

VARIABLES row, verdict

rowVars == <<row, verdict>>

\* A good row but for up to three columns.
RowInit ==
    /\ \E a, b \in Columns, c \in {"externalId", "assetCode", "createdAt"} :
          \E x \in Cells[a], y \in Cells[b], z \in Cells[c] :
             row = [Good EXCEPT ![a] = x, ![b] = y, ![c] = z]
    /\ verdict = [state |-> "none", errors |-> {}, supplied |-> {}]

Given(v, c) == v[c] \notin {"absent", ""}

AssetCode(v) == IF Given(v, "assetCode") THEN v.assetCode ELSE "XLM"

\* parseNumber, parseTimestamp and parseMetadata.
ParseErrors(v) ==
    {c \in {"amount"} : v[c] \in {"", "text"}}
    \cup {c \in {"createdAt", "expiresAt"} : v[c] = "text"}
    \cup {c \in {"metadata"} : v[c] \in {"array", "text"}}

\* The rules of the row, all of them reported at once.
RowErrors(v) ==
    ParseErrors(v)
    \cup {c \in {"externalId"} : v[c] = "too long"}
    \cup {c \in {"amount"} : v[c] = "zero"}
    \cup {c \in {"assetIssuer"} : \/ v[c] = "text"
                                  \/ AssetCode(v) # "XLM" /\ ~Given(v, c)
                                  \/ AssetCode(v) = "XLM" /\ Given(v, c)}
    \cup {c \in {"expiresInDays"} : v[c] \in {"text", "fraction", "0", "366"}}
    \cup {c \in {"expiresAt"} : /\ {v[c], v.createdAt} \subseteq {"t1", "t2"}
                                /\ ~(v[c] = "t2" /\ v.createdAt = "t1")}
    \cup {c \in {"memo", "customerEmail"} : v[c] = "text"}

\* createInvoiceSchema on the candidate.
SchemaErrors(v) ==
    {c \in {"amount"} : v[c] = "over the policy"}
    \cup {c \in {"sellerPublicKey"} : v[c] # "key"}
    \cup {c \in {"description"} : v[c] = "too long"}

\* The columns whose values a later import may compare and change.
Supplied(v) ==
    {"amount", "sellerPublicKey", "assetCode"}
    \cup {c \in {"assetIssuer", "metadata", "customerEmail", "description"} : Given(v, c)}
    \cup {c \in {"expiresAt"} : Given(v, "expiresAt") \/ Given(v, "expiresInDays")}

\* externalId.length is read of a value that an absent column leaves undefined.
ValidateRow(v) ==
    IF v.externalId = "absent" THEN [state |-> "throws", errors |-> {}, supplied |-> {}]
    ELSE LET errors == IF RowErrors(v) # {} THEN RowErrors(v) ELSE SchemaErrors(v)
         IN IF errors # {} THEN [state |-> "refused", errors |-> errors, supplied |-> {}]
            ELSE [state |-> "valid", errors |-> {}, supplied |-> Supplied(v)]

EvaluateRow ==
    /\ verdict.state = "none"
    /\ verdict' = ValidateRow(row)
    /\ UNCHANGED row

RowNext == EvaluateRow

-----------------------------------------------------------------------------
RowTypeOK ==
    /\ \A c \in Columns : row[c] \in Cells[c]
    /\ verdict.state \in {"none", "valid", "refused", "throws"}
    /\ verdict.errors \cup verdict.supplied \subseteq Columns

\* "an import must not be able to create an invoice the API would refuse": a valid
\* row is one that createInvoiceSchema takes, issuer rule and expiry included,
\* and it neither expires before it was created nor carries a malformed memo.
ValidIsApiValid ==
    verdict.state = "valid" =>
       /\ row.amount = "plain" /\ row.sellerPublicKey = "key" /\ row.description # "too long"
       /\ (row.assetCode = "USDC") <=> (row.assetIssuer = "key")
       /\ row.assetIssuer # "text" /\ row.customerEmail # "text" /\ row.memo # "text"
       /\ row.expiresInDays \in {"absent", "", "30"}
       /\ ~(row.createdAt = "t2" /\ row.expiresAt \in {"t1", "t2"})
       /\ ~(row.createdAt = "t1" /\ row.expiresAt = "t1")

\* "An absent column and an empty one mean the same thing here": leaving a column
\* out and leaving its cell empty give the same verdict, for every column but
\* externalId.
AbsentMeansEmpty ==
    verdict.state \in {"valid", "refused"} =>
       verdict = ValidateRow([c \in Columns |-> IF row[c] = "absent" THEN "" ELSE row[c]])
=============================================================================
