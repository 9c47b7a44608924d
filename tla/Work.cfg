INIT Init
NEXT Next
INVARIANTS
    ResumeSafe
    NodesHonest
    TranscriptMatchesRun
    DefinitionsSound
    NotesProcessed
PROPERTIES
    CliRunsFaithful
