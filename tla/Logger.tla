------------------------------- MODULE Logger -------------------------------
(***************************************************************************)
(* logger.provider.ts: where a log line goes. The line itself carries the  *)
(* destinations that it is marked as sent to, and each writer looks there  *)
(* first.                                                                  *)
(***************************************************************************)

Sinks == {"file", "database", "email"}
Levels == {"trace", "debug", "info", "warn", "error", "fatal"}

\* The lists of levels in the settings. Those of the repository:
settings == [levelFile |-> {"debug", "info", "error", "warn", "fatal"},
             levelDatabase |-> {"info", "error", "warn", "fatal"},
             levelEmail |-> {"error", "fatal"}]

\* A line: what it is marked with, the writes under way, where it arrived, and
\* what refused it.
NoLine == [destinations |-> {}, pending |-> {}, kept |-> {}, refused |-> {}]

\* writeToFile marks the line as mailed as well, and sendToEmail as stored.
writeToFile(l) ==
    IF "file" \in l.destinations THEN l
    ELSE [l EXCEPT !.destinations = @ \cup {"email", "file"}, !.pending = @ \cup {"file"}]
writeToDatabase(l) ==
    IF "database" \in l.destinations THEN l
    ELSE [l EXCEPT !.destinations = @ \cup {"database"}, !.pending = @ \cup {"database"}]
sendToEmail(l) ==
    IF "email" \in l.destinations THEN l
    ELSE [l EXCEPT !.destinations = @ \cup {"database"}, !.pending = @ \cup {"email"}]

\* LogStream._write, with the lists of levels in s.
Written(level, s) ==
    LET toFile == IF level \in s.levelFile THEN writeToFile(NoLine) ELSE NoLine
        toDatabase == IF level \in s.levelDatabase THEN writeToDatabase(toFile) ELSE toFile
    IN IF level \in s.levelEmail THEN sendToEmail(toDatabase) ELSE toDatabase

\* A write ends well; or the file, the database or the mail server refuses, and
\* then only a mail goes elsewhere, to the file. (And nowhere.)
Arrived(l, x) == [l EXCEPT !.pending = @ \ {x}, !.kept = @ \cup {x}]
Dropped(l, x) == [l EXCEPT !.pending = @ \ {x}, !.refused = @ \cup {x}]
Refused(l, x) ==
    LET rest == [l EXCEPT !.pending = @ \ {x}, !.refused = @ \cup {x}]
    IN IF x = "email" THEN writeToFile(rest) ELSE rest
=============================================================================
