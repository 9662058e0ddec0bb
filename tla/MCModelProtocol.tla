-------------------------- MODULE MCModelProtocol --------------------------
(***************************************************************************)
(* A small instance of ModelProtocol: batches of up to two corrections or  *)
(* file operations whose texts hold what the scanners trip over.           *)
(***************************************************************************)
EXTENDS ModelProtocol

Helper == <<"plain">>

MCFiles == {Helper}

Texts == {<<>>, <<"plain">>, <<"lbrace">>, <<"rbrace">>, <<"lbrace", "rbrace">>,
          <<"rbracket">>, <<"backslash", "quote">>, <<"wide">>}

Long == <<"plain", "plain", "plain", "plain">>

Corrections ==
    {BatchItem("replace_text", NoText, <<search, <<"plain">>>>) : search \in Texts} \cup
    {BatchItem("replace_text", Helper, <<search, <<"lbracket", "rbracket">>>>) :
        search \in {<<"rbrace">>, <<"quote">>}} \cup
    {BatchItem("replace_text", Helper, <<<<"plain">>, Long>>),
     BatchItem("replace_text", <<"quote">>, <<<<"plain">>, <<"plain">>>>),
     BatchItem("insert_text", NoText, <<<<"plain">>, <<"rbrace", "lbrace">>>>),
     BatchItem("insert_text", Helper, <<<<"plain">>, <<"lbracket">>>>),
     BatchItem("insert_text", <<>>, <<<<"plain">>, <<"plain">>>>),
     BatchItem("remove_text", Helper, <<<<"plain">>, <<"plain">>>>)}

FileOperations ==
    {BatchItem("create_file", NoText, <<Helper, source>>) : source \in Texts} \cup
    {BatchItem("delete_file", NoText, <<path>>) : path \in {Helper, <<"rbracket">>}} \cup
    {BatchItem("rename_file", NoText, <<Helper, path>>) : path \in {Helper, <<>>}}

BatchesOf(action, items) ==
    {[action |-> action, items |-> s] : s \in {<<>>} \cup {<<a>> : a \in items}
                                            \cup {<<a, b>> : a \in items, b \in items}}

MCBatches ==
    BatchesOf("apply_correction", Corrections) \cup
    BatchesOf("apply_file_operations", FileOperations)
=============================================================================
