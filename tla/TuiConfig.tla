----------------------------- MODULE TuiConfig -----------------------------
(***************************************************************************)
(* The settings the terminal user interface edits                          *)
(* (crates/ramforge-cli/src/tui/app.rs): the RAM preset and the text it    *)
(* stands for, the operating mode with its advanced overrides, the test    *)
(* presets, and the maximum number of tokens with its digit editor.  One   *)
(* record c holds them; every operator gives the record after an edit.     *)
(*                                                                         *)
(* Lists of the code (presets, modes, advanced fields) are sequences given *)
(* as constants, indexed from 0 as in the code; the last entry of a preset *)
(* list is its Custom entry.  A text is "", Invalid, or the value it       *)
(* parses to; what a key makes of a text is any of these.  Of the advanced *)
(* texts only those that do not parse are kept; the override settings and  *)
(* the number of the last test preset are left out, no screen depends on   *)
(* them but for where its cursor starts.                                   *)
(***************************************************************************)
EXTENDS Integers, Sequences

CONSTANTS
    RamPresets,      \* sizes of the RAM presets before Custom
    TokensPresets,   \* values of the max-tokens presets before Custom
    TestPresets,     \* records of the test presets before Custom
    ModeOrder,       \* the operating modes in the order they cycle; last: advanced
    AdvancedFields,  \* the fields of the advanced mode, in menu order
    TextFields,      \* those with a text; the others are three-valued overrides
    RamTexts,        \* what a typed RAM text may be
    Digits           \* the digit keys

Invalid == "invalid"

Advanced == ModeOrder[Len(ModeOrder)]
CustomRam == Len(RamPresets)
CustomTokens == Len(TokensPresets)
CustomTest == Len(TestPresets)

\* The lists are sequences, a test preset selects presets that are there and
\* a preset of tokens has at least one.
ASSUME ConfigAssumption ==
    /\ Digits \subseteq 0..9 /\ Len(ModeOrder) > 0 /\ Len(AdvancedFields) \in Nat
    /\ CustomRam \in Nat \ {0} /\ DOMAIN RamPresets = 1..CustomRam
    /\ CustomTokens \in Nat \ {0} /\ DOMAIN TokensPresets = 1..CustomTokens
    /\ \A i \in DOMAIN TokensPresets : TokensPresets[i] \in Nat \ {0}
    /\ CustomTest \in Nat /\ DOMAIN TestPresets = 1..CustomTest
    /\ \A i \in DOMAIN TestPresets :
          /\ TestPresets[i].ram_preset \in 0..(CustomRam - 1)
          /\ TestPresets[i].tokens_preset \in 0..(CustomTokens - 1)

\* The lists start with the default entries of the code.
DefaultConfig ==
    [ram_preset |-> 0, ram_input |-> RamPresets[1], custom_ram |-> "",
     mode |-> ModeOrder[1],
     bad_texts |-> {},
     tokens_preset |-> 0, max_tokens |-> TokensPresets[1], custom_tokens |-> 0]

Cycle(i, n, forward) == IF forward THEN (i + 1) % n ELSE (i + n - 1) % n

-----------------------------------------------------------------------------
(* RAM *)

WithRamPreset(c, i) ==
    [c EXCEPT !.ram_preset = i,
              !.ram_input = IF i = CustomRam THEN c.custom_ram ELSE RamPresets[i + 1]]

CycleRamPreset(c, forward) == WithRamPreset(c, Cycle(c.ram_preset, CustomRam + 1, forward))

SyncRamFromInput(c) ==
    IF c.ram_preset = CustomRam THEN [c EXCEPT !.custom_ram = c.ram_input] ELSE c

\* Typing into the RAM field keeps the custom text in step.
EditRam(c, text) == [c EXCEPT !.ram_input = text, !.custom_ram = text]

-----------------------------------------------------------------------------
(* Mode, overrides, test presets *)

NextMode(c, forward) ==
    LET i == CHOOSE j \in DOMAIN ModeOrder : ModeOrder[j] = c.mode
    IN  ModeOrder[Cycle(i - 1, Len(ModeOrder), forward) + 1]

ApplyTestPreset(c, i) ==
    IF i = CustomTest THEN c
    ELSE LET p == TestPresets[i + 1]
         IN  [WithRamPreset(c, p.ram_preset) EXCEPT
                 !.mode = p.mode, !.tokens_preset = p.tokens_preset,
                 !.max_tokens = TokensPresets[p.tokens_preset + 1],
                 !.bad_texts = {}]

\* build_user_profile: the texts parse, those of the advanced fields only in
\* the advanced mode; an empty advanced text is no override.
ProfileBuilds(c) ==
    /\ c.ram_input \notin {"", Invalid}
    /\ c.mode = Advanced => c.bad_texts = {}

UserProfile(c) == [ram |-> c.ram_input, mode |-> c.mode]

-----------------------------------------------------------------------------
(* The max-tokens editor.  A text of digits without a leading zero is the  *)
(* number it spells; 0 is the empty text.                                  *)

CycleMaxTokensPreset(c, forward) ==
    LET i == Cycle(c.tokens_preset, CustomTokens + 1, forward)
    IN  [c EXCEPT !.tokens_preset = i,
                  !.max_tokens = IF i = CustomTokens THEN c.custom_tokens
                                 ELSE TokensPresets[i + 1]]

StartCustomMaxTokensEdit(c) ==
    IF c.custom_tokens = 0 /\ c.max_tokens > 0
    THEN [c EXCEPT !.custom_tokens = c.max_tokens] ELSE c

EditCustomMaxTokensCharacter(c, digit, cap) ==
    LET v == 10 * c.custom_tokens + digit
    IN  IF v = 0 \/ v > cap THEN c
        ELSE [c EXCEPT !.custom_tokens = v, !.max_tokens = v]

EditCustomMaxTokensBackspace(c) ==
    LET v == c.custom_tokens \div 10
    IN  [c EXCEPT !.custom_tokens = v, !.max_tokens = v]

\* Committing succeeds for a positive number within the bound.
CanCommit(c, cap) == c.custom_tokens > 0 /\ c.custom_tokens <= cap
CommitCustomMaxTokens(c) == [c EXCEPT !.max_tokens = c.custom_tokens]
=============================================================================
