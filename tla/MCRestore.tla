------------------------------- MODULE MCRestore -------------------------------
(* Instance of Restore: two objects, pipes that hold one chunk.              *)
EXTENDS Restore

MCObjects == {"a", "b"}
MCChunks == Statements
MCFile(gz, text) == [sound |-> TRUE, gz |-> gz, text |-> text]

\* Plain and compressed, with and without USE; one with a USE that is not alone on
\* its line, one that names another database; one that is cut off, one that is
\* refused, one that changes databases at its end, one that ends by itself.
MCFiles == {MCFile(FALSE, <<"a", "b", "a">>), MCFile(FALSE, <<"use", "a">>),
            MCFile(FALSE, <<"useUnseen", "a", "use", "b">>),
            MCFile(FALSE, <<"qualified", "a">>),
            MCFile(TRUE, <<"a", "b">>), MCFile(FALSE, <<"a", "bad">>),
            MCFile(FALSE, <<"a", "lifecycle">>), MCFile(FALSE, <<"a", "quit", "b">>),
            [sound |-> FALSE, gz |-> TRUE, text |-> <<"a">>],
            [sound |-> FALSE, gz |-> FALSE, text |-> <<"b">>]}
MCFirstObjects == {{}, MCObjects}
MCDocuments == {f.text : f \in MCFiles}
MCEngines == {"mysql", "postgres"}
MCQuit == "quit"
===============================================================================
