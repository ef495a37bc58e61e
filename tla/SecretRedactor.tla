--------------------------- MODULE SecretRedactor ---------------------------
(***************************************************************************)
(* SecretRedactor (redaction.rs): what is taken out of results, summaries   *)
(* and audit events.  A text is a sequence of characters, line breaks and    *)
(* the marks that private keys are found by ("-----BEGIN ", "PRIVATE KEY",     *)
(* "-----END "): secrets are replaced first, then blocks in what that leaves.  *)
(* Marks ("[REDACTED]") share no character with a secret.  redacted holds    *)
(* the last call.                                                            *)
(***************************************************************************)
EXTENDS Integers, Sequences, FiniteSets, SequencesExt, Absent

CONSTANTS Disclosures,  \* [held, proposed, text]: secrets in order of discovery
          Mark

Tokens == {"begin", "key", "end", "newline"}

VARIABLE redacted

IsPlain(t) == t \in Seq(Range(t) \ {Mark})

ASSUME RedactorAssumption ==
    /\ Mark \notin Tokens
    /\ \A d \in Disclosures :
          /\ IsPlain(d.text)
          /\ \A secrets \in {d.held, d.proposed} :
                secrets \in Seq(Range(secrets)) /\ \A s \in Range(secrets) : IsPlain(s)

\* push_secret drops what is empty; sort_by_key is stable.  (A secret that is
\* there twice is replaced once: dedup changes nothing.)
LongestFirst(secrets) ==
    LET kept == {i \in DOMAIN secrets : secrets[i] # <<>>}
        Before(i) == {j \in kept : \/ Len(secrets[j]) > Len(secrets[i])
                                  \/ (Len(secrets[j]) = Len(secrets[i]) /\ j < i)}
    IN  [k \in 1 .. Cardinality(kept) |->
            secrets[CHOOSE i \in kept : Cardinality(Before(i)) = k - 1]]

\* Mutated form: what a proposed profile adds is put at the end.
ProposedLast(held, proposed) ==
    LongestFirst(held) \o SelectSeq(proposed, LAMBDA s : s # <<>>)

\* The secrets of the configuration, and those of a profile to be created.
from_config_and_profile(held, proposed) == LongestFirst(LongestFirst(held) \o proposed)

At(text, secret, i) ==
    /\ i + Len(secret) - 1 <= Len(text)
    /\ SubSeq(text, i, i + Len(secret) - 1) = secret

\* A text is gone through from left to right: what begins at i is written as
\* out[i], and next[i] is where the search goes on.
Rewritten(out, next) ==
    LET from[i \in 1 .. Len(out) + 1] ==
            IF i > Len(out) THEN <<>> ELSE <<out[i]>> \o from[next[i]]
    IN  from[1]

\* text.replace(secret, mark)
replace(text, secret) ==
    Rewritten([i \in DOMAIN text |-> IF At(text, secret, i) THEN Mark ELSE text[i]],
              [i \in DOMAIN text |-> IF At(text, secret, i) THEN i + Len(secret) ELSE i + 1])

hide(secrets, text) ==
    LET after[k \in 0 .. Len(secrets)] ==
            IF k = 0 THEN text ELSE replace(after[k - 1], secrets[k])
    IN  after[Len(secrets)]

\* Where the line of place i ends: with its line break, or with the text.
LineEnd(text, i) == Min({n \in i .. Len(text) : text[n] = "newline" \/ n = Len(text)})

\* A header is a beginning with "PRIVATE KEY" behind it on its line.
IsHeader(text, i) ==
    text[i] = "begin" /\ \E k \in i .. LineEnd(text, i) : text[k] = "key"

\* A block runs from its header through the line of the first end that stands on
\* a later line, or to the end of the text.
BlockEnd(text, i) ==
    LET ends == {j \in LineEnd(text, i) + 1 .. Len(text) : text[j] = "end"}
    IN  IF ends = {} THEN Len(text) ELSE LineEnd(text, Min(ends))

redact_private_key_blocks(text) ==
    Rewritten([i \in DOMAIN text |-> IF IsHeader(text, i) THEN Mark ELSE text[i]],
              [i \in DOMAIN text |-> IF IsHeader(text, i) THEN BlockEnd(text, i) + 1 ELSE i + 1])

redact(secrets, text) == redact_private_key_blocks(hide(secrets, text))

RedactorInit == redacted = None

Redact ==
    \E d \in Disclosures :
        redacted' = [input |-> d,
                     output |-> redact(from_config_and_profile(d.held, d.proposed), d.text)]

-----------------------------------------------------------------------------
\* What stands at the places S of a text.
Keep(text, S) ==
    LET upto[i \in 0 .. Len(text)] ==
            IF i = 0 THEN <<>>
            ELSE IF i \in S THEN Append(upto[i - 1], text[i])
            ELSE upto[i - 1]
    IN  upto[Len(text)]
Unmarked(text) == Keep(text, {i \in DOMAIN text : text[i] # Mark})

\* A line ends between i and j; a block that began at h has ended before i.
Broken(text, i, j) == \E n \in i .. j - 1 : text[n] = "newline"
Over(text, h, i) ==
    \E e \in h .. i : text[e] = "end" /\ Broken(text, h, e) /\ Broken(text, e, i)

\* What follows the header of a private key belongs to it until a later line that
\* has an end is over, also when blocks lie in each other or never end.
Private(text, i) == \E h \in 1 .. i : IsHeader(text, h) /\ ~ Over(text, h, i)

\* On the line that ends a block another one begins.
Swallows(text, g, h) ==
    /\ IsHeader(text, g) /\ IsHeader(text, h) /\ Broken(text, g, h) /\ ~ Over(text, g, h)
    /\ \E e \in DOMAIN text :
          text[e] = "end" /\ ~ Broken(text, e, h) /\ ~ Broken(text, h, e)

\* No secret is left in a text, and where secrets lie in each other (one may be
\* the beginning of another) but do not cross, and hold no mark of a key, and no
\* block swallows a header, nothing of a secret or a private key is, and nothing
\* else is lost.
TextHidden(d, output) ==
    LET text == d.text
        secrets == (ToSet(d.held) \cup ToSet(d.proposed)) \ {<<>>}
        found == {o \in (1 .. Len(text)) \X secrets : At(text, o[2], o[1])}
        Span(o) == o[1] .. o[1] + Len(o[2]) - 1
        nested == \A o, q \in found :
                      \/ Span(o) \subseteq Span(q) \/ Span(q) \subseteq Span(o)
                      \/ Span(o) \cap Span(q) = {}
        unmarked == \A secret \in secrets : ToSet(secret) \cap Tokens = {}
        apart == \A g, h \in DOMAIN text : ~ Swallows(text, g, h)
        covered == UNION {Span(o) : o \in found}
    IN  /\ \A secret \in secrets, i \in DOMAIN output : ~ At(output, secret, i)
        /\ nested /\ unmarked /\ apart =>
               Unmarked(output)
                   = Keep(text, {i \in DOMAIN text : i \notin covered /\ ~ Private(text, i)})

\* What leaves the gateway holds no secret of the configuration and none of a
\* profile that is proposed, nothing of a private key, and lacks nothing else.  A
\* key that begins on the very line that ends another is not hidden: its header is
\* taken for the rest of that line, and the key itself leaves.
SecretsHidden == redacted # None => TextHidden(redacted.input, redacted.output)
=============================================================================
