------------------------------ MODULE PagedRead ------------------------------
(***************************************************************************)
(* read_file of the MCP server (paginate_read, mcp.rs): an agent reads a     *)
(* remote file page by page.  Every page reads the whole file again, so it  *)
(* may have changed.  A byte is "a", an ASCII character, or "lead" or       *)
(* "tail", the two bytes of another; a character that is not complete       *)
(* becomes "?".                                                             *)
(***************************************************************************)
EXTENDS Integers, Sequences, SequencesExt

CONSTANTS Contents,        \* of the remote file
          Limits,          \* the limits agents ask for
          MAX_READ_BYTES

VARIABLES remote,    \* the file's content, a sequence of bytes
          reader,    \* [offset, text, eof]: what the agent has put together
          stable,    \* history: the file did not change since the first page
          cuts       \* history: where pages began
readVars == <<remote, reader, stable, cuts>>

Bytes == {"a", "lead", "tail"}

ASSUME PageAssumption ==
    Contents \subseteq Seq(Bytes) /\ Limits \subseteq Nat /\ MAX_READ_BYTES \in Nat

\* String::from_utf8_lossy
lossy(bytes) ==
    LET from[i \in 1 .. Len(bytes) + 2] ==
            IF i > Len(bytes) THEN <<>>
            ELSE IF bytes[i] = "a" THEN <<"a">> \o from[i + 1]
            ELSE IF bytes[i] = "lead" /\ i < Len(bytes) /\ bytes[i + 1] = "tail"
                 THEN <<"char">> \o from[i + 2]
            ELSE <<"?">> \o from[i + 1]
    IN  from[1]

Least(m, n) == IF m < n THEN m ELSE n

\* Mutated form: the next page begins where this one was asked to end.
paginate_unclipped(bytes, offset, limit) ==
    LET start == Least(offset, Len(bytes))
        end == Least(start + Least(limit, MAX_READ_BYTES), Len(bytes))
    IN  [content |-> lossy(SubSeq(bytes, start + 1, end)), offset |-> start,
         next_offset |-> start + limit, size_bytes |-> Len(bytes), eof |-> end = Len(bytes)]

paginate_read(bytes, offset, limit) ==
    LET start == Least(offset, Len(bytes))
        end == Least(start + Least(limit, MAX_READ_BYTES), Len(bytes))
    IN  [content |-> lossy(SubSeq(bytes, start + 1, end)), offset |-> start,
         next_offset |-> end, size_bytes |-> Len(bytes), eof |-> end = Len(bytes)]

ReadInit ==
    /\ remote = <<>>
    /\ reader = [offset |-> 0, text |-> <<>>, eof |-> FALSE]
    /\ stable = TRUE
    /\ cuts = {}

\* One call of read_file, at the offset the page before gave.
ReadPage(limit) ==
    /\ ~ reader.eof
    /\ LET page == paginate_read(remote, reader.offset, limit)
       IN  /\ reader' = [offset |-> page.next_offset, text |-> reader.text \o page.content,
                         eof |-> page.eof]
           /\ cuts' = cuts \cup {page.offset}
    /\ UNCHANGED <<remote, stable>>

\* The file is written on the host, before the first page or between two.
WriteRemote ==
    /\ ~ reader.eof /\ stable
    /\ remote' \in Contents
    /\ stable' = (cuts = {})
    /\ UNCHANGED <<reader, cuts>>

-----------------------------------------------------------------------------
\* Pages put together are the file: when the last page says so and the file
\* stayed as it was, every byte was read once and in order, whatever limits
\* were asked for, and the text is the file's text unless a page began within
\* a character.
PagesReassemble ==
    reader.eof /\ stable =>
        /\ reader.offset = Len(remote)
        /\ (\A cut \in cuts : cut < Len(remote) => remote[cut + 1] # "tail")
              => reader.text = lossy(remote)
=============================================================================
