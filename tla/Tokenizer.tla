----------------------------- MODULE Tokenizer -----------------------------
(***************************************************************************)
(* The tokenizer (crates/ramforge-core/src/tokenizer.rs): a prompt is      *)
(* encoded with the vocabulary of the model file, and the tokens that the  *)
(* model then generates are decoded one at a time, as they are printed.    *)
(*                                                                         *)
(* A text is a sequence of characters of a small alphabet: "_" stands for  *)
(* the SentencePiece space mark, "G" for the GPT-2 one, "e" for a          *)
(* character of two bytes (a lead byte "L" and a continuation byte "c"),   *)
(* "U" and "V" for the characters that GPT-2's byte alphabet writes those  *)
(* two bytes with, and "?" for the replacement character.                  *)
(***************************************************************************)
EXTENDS Integers, FiniteSets, SequencesExt, FiniteSetsExt

CONSTANTS
    Vocabularies,  \* model, pre, tokens, scores, merges, bos, eos, unk, add_bos, add_eos
    Texts,         \* prompts
    MaxStream      \* bound on the number of generated tokens

VARIABLES
    vocabulary,
    prompt,   \* the prompt, and its token numbers once it is encoded
    stream,   \* the tokens generated so far
    decoder   \* the TokenDecoder: pending bytes, whether at the start, output

tokenizerVars == <<vocabulary, prompt, stream, decoder>>

NoTokenId == 0
NoByte == "none"
NoMerges == <<>>
LongestToken == 32
AtMost(a, b) == IF a < b THEN a ELSE b

Flatten(texts) == FoldLeft(LAMBDA acc, t : acc \o t, <<>>, texts)

-----------------------------------------------------------------------------
(* The tables that from_gguf builds. *)

\* The first token of a text.
IdOf(v, text) ==
    IF \E i \in DOMAIN v.tokens : v.tokens[i].text = text
    THEN Min({i \in DOMAIN v.tokens : v.tokens[i].text = text})
    ELSE NoTokenId

\* A <0xNN> token counts over a single character of type Byte; of several
\* <0xNN> tokens of one byte, the last.
ByteToken(v, b) ==
    LET hex == {i \in DOMAIN v.tokens : v.tokens[i].hex = b}
        single == {i \in DOMAIN v.tokens : v.tokens[i].text = <<b>> /\ v.tokens[i].type = "Byte"}
    IN IF hex # {} THEN Max(hex) ELSE IF single # {} THEN Min(single) ELSE NoTokenId

\* Control and added tokens that start with "<", longest first.
SpecialTokens(v) ==
    SetToSortSeq({i \in DOMAIN v.tokens : /\ v.tokens[i].type \in {"Control", "UserDefined"}
                                          /\ Len(v.tokens[i].text) > 1
                                          /\ Head(v.tokens[i].text) = "<"},
                 LAMBDA i, j : LET li == Len(v.tokens[i].text)
                                   lj == Len(v.tokens[j].text)
                               IN li > lj \/ (li = lj /\ i < j))

\* The rank of a merge; of equal ones, the last.
MergeRank(v, left, right) ==
    IF \E k \in DOMAIN v.merges : v.merges[k] = <<left, right>>
    THEN Max({k \in DOMAIN v.merges : v.merges[k] = <<left, right>>})
    ELSE NoTokenId

IsBpe(v) == v.model = "gpt2" \/ v.pre = "qwen2" \/ v.merges # NoMerges

\* A vocabulary without the key has its family's default.
AddsBos(v) == IF v.add_bos = "absent" THEN ~IsBpe(v) ELSE v.add_bos = "true"

-----------------------------------------------------------------------------
(* Encoding. *)

CharBytes(ch) ==
    CASE ch = "e" -> <<"L", "c">>
      [] ch = "_" -> <<"m1", "m2", "m3">>
      [] ch = "G" -> <<"g1", "g2">>
      [] ch = "U" -> <<"u1", "u2">>
      [] ch = "V" -> <<"v1", "v2">>
      [] OTHER -> <<ch>>

TextBytes(text) == Flatten([k \in DOMAIN text |-> CharBytes(text[k])])

Optional(id) == IF id = NoTokenId THEN <<>> ELSE <<id>>
ByteOrUnknown(v, b) ==
    IF ByteToken(v, b) # NoTokenId THEN <<ByteToken(v, b)>> ELSE Optional(v.unk)

\* encode_greedy: the longest token at each place; a character that no token
\* has gives way to the token of its first byte.
GreedyAt(v, text, i) ==
    LET lengths == {n \in 1..AtMost(Len(text) - i + 1, LongestToken) : IdOf(v, SubSeq(text, i, i + n - 1)) # NoTokenId}
    IN IF lengths # {}
       THEN [ids |-> <<IdOf(v, SubSeq(text, i, i + Max(lengths) - 1))>>, next |-> i + Max(lengths)]
       ELSE [ids |-> ByteOrUnknown(v, Head(CharBytes(text[i]))), next |-> i + 1]

EncodeGreedy(v, text) ==
    FoldLeft(LAMBDA acc, i : IF i < acc.next THEN acc
                             ELSE [ids |-> acc.ids \o GreedyAt(v, text, i).ids,
                                   next |-> GreedyAt(v, text, i).next],
             [ids |-> <<>>, next |-> 1], [i \in DOMAIN text |-> i]).ids

\* Space marks, if the vocabulary has them.
Marked(v, text) ==
    LET replaced == [k \in DOMAIN text |-> IF text[k] = " " THEN "_" ELSE text[k]]
    IN IF ~\E i \in DOMAIN v.tokens : "_" \in ToSet(v.tokens[i].text) THEN text
       ELSE IF Head(replaced) = "_" THEN replaced
       ELSE <<"_">> \o replaced

\* The best way found to write a prefix.  Tried in the order of the loops:
\* a later candidate must be better.
NoWay == [score |-> NoTokenId, ids |-> NoMerges, found |-> FALSE]

Better(old, new) == IF old.found /\ old.score >= new.score THEN old ELSE new

Extended(v, text, best, i) ==
    [j \in DOMAIN best |->
        LET id == IdOf(v, SubSeq(text, i + 1, j))
        IN IF j \in (i + 1)..AtMost(Len(text), i + LongestToken) /\ best[i].found /\ id # NoTokenId
           THEN Better(best[j], [score |-> best[i].score + v.scores[id],
                                 ids |-> Append(best[i].ids, id), found |-> TRUE])
           ELSE best[j]]

BestWay(v, text) ==
    FoldLeft(LAMBDA best, i : Extended(v, text, best, i - 1),
             [j \in 0..Len(text) |-> IF j = 0 THEN [NoWay EXCEPT !.found = TRUE] ELSE NoWay],
             [i \in DOMAIN text |-> i])[Len(text)]

EncodeSentencepiece(v, text) ==
    IF text = <<>> THEN <<>>
    ELSE IF BestWay(v, Marked(v, text)).found THEN BestWay(v, Marked(v, text)).ids
    ELSE EncodeGreedy(v, Marked(v, text))

\* pre_tokenize_bpe: words, each but the first with a space mark.
Words(text) ==
    LET ends == {k \in DOMAIN text : text[k] # " " /\ (k = Len(text) \/ text[k + 1] = " ")}
        start(k) == Min({s \in 1..k : \A m \in s..k : text[m] # " "})
    IN [k \in 1..Cardinality(ends) |->
           LET e == SetToSortSeq(ends, <)[k] IN SubSeq(text, start(e), e)]

PreTokenizeBpe(v, text) ==
    IF ~\E i \in DOMAIN v.tokens : v.tokens[i].text # <<>> /\ Head(v.tokens[i].text) = "G"
    THEN <<text>>
    ELSE [k \in DOMAIN Words(text) |->
             IF k > 1 \/ Head(text) = " " THEN <<"G">> \o Words(text)[k] ELSE Words(text)[k]]

\* One round of bpe_word: the leftmost pair of the lowest rank becomes one piece.
MergeOnce(v, pieces) ==
    LET pairs == {k \in 1..(Len(pieces) - 1) : MergeRank(v, pieces[k], pieces[k + 1]) # NoTokenId}
        rank(k) == MergeRank(v, pieces[k], pieces[k + 1])
        at == CHOOSE k \in pairs : \A m \in pairs : rank(k) < rank(m) \/ (rank(k) = rank(m) /\ k <= m)
    IN IF pairs = {} THEN pieces
       ELSE SubSeq(pieces, 1, at - 1) \o <<pieces[at] \o pieces[at + 1]>>
            \o SubSeq(pieces, at + 2, Len(pieces))

BpeWord(v, word) ==
    FoldLeft(LAMBDA pieces, k : MergeOnce(v, pieces), [k \in DOMAIN word |-> <<word[k]>>], word)

\* A piece without a token is written byte by byte.
PieceIds(v, piece) ==
    IF IdOf(v, piece) # NoTokenId THEN <<IdOf(v, piece)>>
    ELSE Flatten([k \in DOMAIN TextBytes(piece) |-> ByteOrUnknown(v, TextBytes(piece)[k])])

EncodeBpe(v, text) ==
    LET words == PreTokenizeBpe(v, text)
        ids == Flatten([w \in DOMAIN words |->
                  Flatten([k \in DOMAIN BpeWord(v, words[w]) |-> PieceIds(v, BpeWord(v, words[w])[k])])])
    IN IF text = <<>> THEN <<>> ELSE IF ids = <<>> THEN EncodeGreedy(v, text) ELSE ids

EncodePlain(v, text) == IF IsBpe(v) THEN EncodeBpe(v, text) ELSE EncodeSentencepiece(v, text)

\* The special token that starts at a place, longest first.
SpecialAt(v, text, i) ==
    LET found == SelectSeq(SpecialTokens(v), LAMBDA t : IsPrefix(v.tokens[t].text, SubSeq(text, i, Len(text))))
    IN IF found = <<>> THEN NoTokenId ELSE Head(found)

\* The text between special tokens is encoded on its own.
EncodeWithSpecialTokens(v, text) ==
    LET Step(acc, i) ==
            LET special == SpecialAt(v, text, i)
            IN IF i < acc.next THEN acc
               ELSE IF special = NoTokenId THEN [acc EXCEPT !.next = i + 1]
               ELSE [ids |-> acc.ids
                             \o (IF acc.normal < i THEN EncodePlain(v, SubSeq(text, acc.normal, i - 1)) ELSE <<>>)
                             \o <<special>>,
                     normal |-> i + Len(v.tokens[special].text),
                     next |-> i + Len(v.tokens[special].text)]
        last == FoldLeft(Step, [ids |-> <<>>, normal |-> 1, next |-> 1], [i \in DOMAIN text |-> i])
    IN last.ids \o (IF last.normal <= Len(text)
                    THEN EncodePlain(v, SubSeq(text, last.normal, Len(text))) ELSE <<>>)

Encode(v, text, add_bos) ==
    (IF add_bos /\ AddsBos(v) THEN Optional(v.bos) ELSE <<>>)
    \o EncodeWithSpecialTokens(v, text)
    \o (IF v.add_eos THEN Optional(v.eos) ELSE <<>>)

-----------------------------------------------------------------------------
(* Decoding. *)

NewDecoder == [pending |-> <<>>, at_start |-> TRUE, output |-> <<>>, finished |-> FALSE]

TrimStart(text) ==
    LET kept == {k \in DOMAIN text : text[k] # " "}
    IN IF kept = {} THEN <<>> ELSE SubSeq(text, Min(kept), Len(text))

\* emit_text
Emit(v, d, text) ==
    LET emitted == IF d.at_start /\ v.model = "llama" THEN TrimStart(text) ELSE text
    IN [d EXCEPT !.output = @ \o emitted, !.at_start = @ /\ emitted = <<>>]

\* One more byte: held is the start of a character that is not complete.
Utf8(acc, b) ==
    CASE acc.held # <<>> /\ b = "c" -> [text |-> Append(acc.text, "e"), held |-> <<>>]
      [] b = "L" -> [text |-> IF acc.held # <<>> THEN Append(acc.text, "?") ELSE acc.text,
                     held |-> <<"L">>]
      [] OTHER -> [text |-> (IF acc.held # <<>> THEN Append(acc.text, "?") ELSE acc.text)
                            \o <<IF b = "c" THEN "?" ELSE b>>,
                   held |-> <<>>]

FromUtf8(bytes) == FoldLeft(Utf8, [text |-> <<>>, held |-> <<>>], bytes)

\* Mutant: what is pending is given up at every token.
DrainAll(v, d, finish) ==
    LET read == FromUtf8(d.pending)
    IN [Emit(v, d, read.text \o (IF read.held # <<>> THEN <<"?">> ELSE <<>>)) EXCEPT !.pending = <<>>]

\* drain_bytes: the complete characters are emitted; a start of one waits.
DrainBytes(v, d, finish) ==
    LET read == FromUtf8(d.pending)
        lossy == IF finish /\ read.held # <<>> THEN <<"?">> ELSE <<>>
    IN [Emit(v, d, read.text \o lossy) EXCEPT !.pending = IF finish THEN <<>> ELSE read.held]

GptByte(ch) ==
    CASE ch = "G" -> " " [] ch = "U" -> "L" [] ch = "V" -> "c"
      [] ch \in {"_", "e"} -> NoByte [] OTHER -> ch

\* The bytes that a token stands for: a <0xNN> token, a Byte token, or any
\* token of GPT-2's byte alphabet.
BytesOfToken(v, id) ==
    LET t == v.tokens[id]
        bytes == [k \in DOMAIN t.text |-> GptByte(t.text[k])]
    IN IF t.hex # NoByte THEN <<t.hex>>
       ELSE IF t.type = "Byte" /\ Len(t.text) = 1 THEN t.text
       ELSE IF v.model \in {"gpt2", "qwen2"} /\ NoByte \notin ToSet(bytes) THEN bytes
       ELSE <<NoByte>>

Unmarked(text) == [k \in DOMAIN text |-> IF text[k] \in {"_", "G"} THEN " " ELSE text[k]]

Skipped(v, id) == id \in {v.bos, v.eos} /\ v.tokens[id].type = "Control"

PushToken(v, d, id) ==
    LET bytes == BytesOfToken(v, id)
    IN IF Skipped(v, id) THEN d
       ELSE IF NoByte \notin ToSet(bytes)
       THEN DrainBytes(v, [d EXCEPT !.pending = @ \o bytes], FALSE)
       ELSE Emit(v, DrainBytes(v, d, TRUE), Unmarked(v.tokens[id].text))

-----------------------------------------------------------------------------
TokenizerStart(vocabularies, texts) ==
    /\ vocabulary \in vocabularies
    /\ prompt \in [text : texts, ids : {<<>>}, done : {FALSE}]
    /\ stream = <<>>
    /\ decoder = NewDecoder

TokenizerInit == TokenizerStart(Vocabularies, Texts)

\* The prompt of a run: one that no token came of is the BOS token alone.
EncodePrompt ==
    /\ ~prompt.done
    /\ LET ids == Encode(vocabulary, prompt.text, TRUE)
       IN prompt' = [prompt EXCEPT !.ids = IF ids = <<>> THEN Optional(vocabulary.bos) ELSE ids,
                                   !.done = TRUE]
    /\ UNCHANGED <<vocabulary, stream, decoder>>

\* The model generates a token, and the decoder prints what it can of it.
\* The decoder does not depend on the prompt: streams are taken over the empty
\* one only.
Generate ==
    /\ Len(stream) < MaxStream
    /\ prompt.text = <<>> /\ ~decoder.finished
    /\ \E id \in DOMAIN vocabulary.tokens :
         /\ stream' = Append(stream, id)
         /\ decoder' = PushToken(vocabulary, decoder, id)
    /\ UNCHANGED <<vocabulary, prompt>>

\* The generation ends: an incomplete character is given up.
FinishStream ==
    /\ prompt.text = <<>> /\ ~decoder.finished
    /\ decoder' = [DrainBytes(vocabulary, decoder, TRUE) EXCEPT !.finished = TRUE]
    /\ UNCHANGED <<vocabulary, prompt, stream>>

TokenizerNext == EncodePrompt \/ Generate \/ FinishStream

TokenizerSpec == TokenizerInit /\ [][TokenizerNext]_tokenizerVars

-----------------------------------------------------------------------------
\* All ways of writing a text with the tokens of the vocabulary.
Ways(v, text) ==
    {w \in UNION {[1..n -> DOMAIN v.tokens] : n \in 0..Len(text)} :
        Flatten([k \in DOMAIN w |-> v.tokens[w[k]].text]) = text}
ScoreOf(v, ids) == FoldLeft(LAMBDA acc, id : acc + v.scores[id], 0, ids)

\* What of the spaces survives: a GPT-2 vocabulary keeps one between words and
\* one at the start; decoding for a llama vocabulary drops those at the start.
Spaced(v, text) ==
    LET words == Words(text)
    IN IF IsBpe(v)
       THEN Flatten([k \in DOMAIN words |->
                IF k > 1 \/ Head(text) = " " THEN <<" ">> \o words[k] ELSE words[k]])
       ELSE TrimStart(text)

Decode(v, ids) ==
    DrainBytes(v, FoldLeft(LAMBDA d, id : PushToken(v, d, id), NewDecoder, ids), TRUE).output

\* After the BOS token of a vocabulary that adds one, a prompt that a unigram
\* vocabulary can write is written by the tokens with the best score of all
\* ways to write it; and a prompt that needs neither the unknown token nor the
\* bytes of a longer character decodes to itself.
EncodingFaithful ==
    LET v == vocabulary
        text == Marked(v, prompt.text)
        plain == prompt.done /\ prompt.text # <<>> /\ "<" \notin ToSet(prompt.text)
        bos == IF AddsBos(v) THEN Optional(v.bos) ELSE <<>>
        ids == SubSeq(prompt.ids, Len(bos) + 1, Len(prompt.ids))
    IN /\ plain => IsPrefix(bos, prompt.ids)
       /\ plain /\ ~IsBpe(v) /\ ~v.add_eos =>
            \A w \in Ways(v, text) : ScoreOf(v, w) <= ScoreOf(v, ids)
       /\ plain /\ v.unk \notin ToSet(ids)
          /\ ("e" \in ToSet(prompt.text) => IdOf(v, <<"e">>) # NoTokenId) =>
            Decode(v, ids) = Spaced(v, prompt.text)

\* The bytes that the generated tokens stand for, text tokens included.
StreamBytes ==
    Flatten([k \in DOMAIN stream |->
        LET bytes == BytesOfToken(vocabulary, stream[k])
        IN IF Skipped(vocabulary, stream[k]) THEN <<>>
           ELSE IF NoByte \in ToSet(bytes)
           THEN TextBytes(Unmarked(vocabulary.tokens[stream[k]].text)) ELSE bytes])

\* Every continuation byte follows a lead byte, and every lead byte has one,
\* except perhaps the last.
WellFormed(bytes) ==
    \A k \in DOMAIN bytes :
        /\ bytes[k] = "c" => k > 1 /\ bytes[k - 1] = "L"
        /\ bytes[k] = "L" /\ k < Len(bytes) => bytes[k + 1] = "c"

\* However the tokens cut the characters into bytes, what is printed is the
\* characters that are complete so far (without the spaces that a llama
\* vocabulary starts with), and the bytes of an incomplete one are held back.
StreamedTextIntact ==
    WellFormed(StreamBytes)
    /\ (decoder.finished => StreamBytes = <<>> \/ Last(StreamBytes) # "L") =>
        /\ TextBytes(decoder.output) \o decoder.pending =
             (IF vocabulary.model = "llama" THEN TrimStart(StreamBytes) ELSE StreamBytes)
        /\ "?" \notin ToSet(decoder.output)

\* Text is the same on the way in, as tokens, and on the way out, as the bytes
\* of a stream (Tokenizer::encode, TokenDecoder::push and finish).
TextIntact == EncodingFaithful /\ StreamedTextIntact
=============================================================================
