--------------------------- MODULE MCReaderCatalog ----------------------------
(***************************************************************************)
(* Sources for ReaderCatalog: a TLG file of two works, a Perseus text that *)
(* replaces one of them by its URN, a First1K text that replaces it by its *)
(* text id, which the Perseus text mints as well, and a Sanskrit text with *)
(* its JSON twin.                                                          *)
(***************************************************************************)
EXTENDS ReaderCatalog, TLC

CONSTANTS tlg1, tlg2, per1, first, text, json, urn2, none1, none2

MCWorks == {tlg1, tlg2, per1, first, text, json}
MCCollection == tlg1 :> "tlg" @@ tlg2 :> "tlg" @@ per1 :> "perseus" @@
                first :> "first1k" @@ text :> "sanskrit" @@ json :> "json"
MCLanguage == [w \in MCWorks |-> IF w \in {text, json} THEN 3 ELSE 2]
MCUrn == tlg1 :> per1 @@ per1 :> per1 @@ tlg2 :> urn2 @@ first :> first @@
         text :> none1 @@ json :> none2
MCMinted == tlg1 :> "a" @@ per1 :> "a" @@ tlg2 :> "b" @@ first :> "a" @@
            text :> "c" @@ json :> "c"
MCBook == tlg1 :> "tlg" @@ tlg2 :> "tlg" @@ per1 :> "per" @@ first :> "first" @@
          text :> "text" @@ json :> "json"
MCStream == <<"tlg", "json", "text", "per", "first">>
MCTables == {{tlg1, per1}, {tlg2, json}}
MCCommands ==
    {[books |-> Books, wipe |-> w, slice |-> FALSE] : w \in BOOLEAN}
    \cup {[books |-> {b}, wipe |-> FALSE, slice |-> TRUE] : b \in Books}
    \cup {[books |-> {"per", "first"}, wipe |-> FALSE, slice |-> FALSE],
          [books |-> {"tlg", "json"}, wipe |-> TRUE, slice |-> FALSE]}
MCTwin == [w \in MCWorks |-> IF w = text THEN json ELSE None]

(* A TLG work and an English translation from Perseus under its URN.       *)
PairWorks    == {tlg1, per1}
PairLanguage == tlg1 :> 2 @@ per1 :> 1
PairMinted   == tlg1 :> "a" @@ per1 :> "b"
PairStream   == <<"tlg", "per">>
PairTwin     == [w \in PairWorks |-> None]
PairTables   == {{per1}, {tlg1}}
PairCommands == {[books |-> {b}, wipe |-> FALSE, slice |-> TRUE] : b \in Books}

(* A TLG work and the First1K edition of it, which has another URN.        *)
OverlapWorks    == {tlg1, first}
OverlapStream   == <<"tlg", "first">>
OverlapTwin     == [w \in OverlapWorks |-> None]
OverlapTables   == {OverlapWorks}
OverlapCommands == {[books |-> Books, wipe |-> TRUE, slice |-> FALSE]}
=============================================================================
