--------------------------- MODULE MCFallbackShell ---------------------------
(* Small instances of FallbackShell: lines edited over a history of one     *)
(* line, commands run, keys and characters cut in two by the payloads.      *)
EXTENDS FallbackShell

MCBytes == {"a", "b", "c", "h", "q", "x", "y", "z", " ", "[", "A", "B", "C", "D", "CR", "LF",
            "DEL", "ESC", "EOT", "TAB", "LEAD", "TAIL"}

EditKeys == {<<"a">>, <<"DEL">>, <<"ESC", "[", "A">>, <<"ESC", "[", "B">>,
             <<"ESC", "[", "C">>, <<"ESC", "[", "D">>}

Starts == {<<"a">> \o k : k \in {<<"ESC", "[", "A">>, <<"ESC", "[", "D">>}}
            \cup {<<"ESC", "[", "A">> \o k : k \in EditKeys}

Edits == {<<<<"a", "CR", "a", "b", "CR">> \o k1 \o k2>> :
            k1 \in Starts, k2 \in EditKeys}

\* "x" writes and "y" does not.
Talks == {<<<<"x", "CR", "EOT">>>>, <<<<"x", "CR">>, <<"z">>>>}
Waits == {<<<<"y", "CR">>, <<"z">>, l>> : l \in {<<"EOT">>, <<"q", "CR">>}}

\* Typed by a client that may leave while a program runs, or after the exit.
LeftAlone == {<<<<"x", "CR">>>>, <<<<"y", "CR">>, <<"z", "EOT">>>>,
              <<<<"c", "CR">>, <<"q", "CR">>>>}

Lines == {<<l, <<"q", "CR">>, <<"b">>>> :
            l \in {<<"CR">>, <<" ", "CR">>, <<"h", "CR">>}}

\* As much as fills the tunnel that holds one message, before and after the exit.
Fills == {<<l, <<"b">>, <<"b">>>> : l \in {<<"b">>, <<"q", "CR">>}}

Cut(bytes) == {<<SubSeq(bytes, 1, i), SubSeq(bytes, i + 1, Len(bytes))>> :
                 i \in 1 .. Len(bytes) - 1}

Cuts == UNION {Cut(bytes) : bytes \in
  {<<"a", "ESC", "[", "D", "b">>, <<"ESC", "[", "A", "ESC", "EOT", "a">>,
   <<"LEAD", "TAIL", "ESC", "[", "D", "TAB">>, <<"LEAD", "TAIL", "DEL", "CR">>}}

MCScripts == Edits \cup Talks \cup Waits \cup LeftAlone \cup Lines \cup Fills
               \cup Cuts
MCImpatient == LeftAlone \cup Cuts

MCPrograms == {<<"x">>, <<"y">>}
MCProcessOutput == [p \in MCPrograms |-> IF p = <<"x">> THEN <<"CR">> ELSE <<>>]
MCProcessErrors == [p \in MCPrograms |-> IF p = <<"x">> THEN <<"LF">> ELSE <<>>]
=============================================================================
