-------------------------- MODULE MCArtifactDocuments --------------------------
(***************************************************************************)
(* One document of one page with any short text, extracted once and loaded;*)
(* and two documents, one of them with a second version, where everything  *)
(* that may go wrong does; and an output directory that does not stay safe.*)
(***************************************************************************)
EXTENDS ArtifactDocuments

MCNames == <<"Doc1", "Doc2">>

NoScan == {[text |-> <<>>, confidence |-> "good"]}
Native(text) == [native |-> text, scans |-> NoScan]
Readable(pages) == [readable |-> TRUE, size |-> Len(pages), pages |-> pages]

Texts == UNION {[1..n -> {"a", "A", " ", "nl", Mark, "zwj"}] : n \in 1..4}
         \cup {<<"a">> \o s \o <<"a">> : s \in [1..4 -> {"a", " ", Mark, "nl"}]}
         \cup {<<"a", "nl", "nl", "nl", "nl", "a", "a">>, <<"a", "nul", "a">>,
               <<"a", "cr", "nl", "ff", "a">>, <<"#", " ", "a", "nl", "A", ".">>,
               <<"a", ".", " ", "a", "a", "a">>, <<"surrogate", "a", "a">>}

TextOrigins ==
    {[versions |-> "Doc1" :> <<Readable(<<Native(text)>>)>> @@
                   "Doc2" :> <<Readable(<<Native(<<"a">>)>>)>>,
      mishaps |-> {}, adapters |-> {NoAdapter}, runs |-> 1] : text \in Texts}

Scanned == [native |-> <<>>,
            scans |-> {[text |-> <<"a", "a">>, confidence |-> "good"],
                       [text |-> <<>>, confidence |-> "raises"]}]
Doubtful == [native |-> <<"a", "surrogate", " ">>,
             scans |-> {[text |-> <<"A", "a">>, confidence |-> "low"],
                        [text |-> <<"A", "a">>, confidence |-> "good"]}]

Garbage == [readable |-> FALSE, size |-> 2, pages |-> <<>>]

TroubledOrigins ==
    {[versions |-> "Doc1" :> <<Readable(<<Native(<<"a", "a">>), Scanned>>),
                               Readable(<<Native(<<"A", "a">>), Native(<<"a">>)>>)>> @@
                   "Doc2" :> <<second>>,
      mishaps |-> {"failures"}, adapters |-> {NoAdapter, "ocr"}, runs |-> 2] :
       second \in {Readable(<<Doubtful>>), Garbage}}

UnsafeOrigins ==
    {[versions |-> "Doc1" :> <<Readable(<<Native(<<"a", "a">>)>>)>> @@
                   "Doc2" :> <<Readable(<<Native(<<"a">>)>>)>>,
      mishaps |-> {"output"}, adapters |-> {NoAdapter}, runs |-> 1]}

MCOrigins == TextOrigins \cup TroubledOrigins \cup UnsafeOrigins
================================================================================
