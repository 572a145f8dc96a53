\* The generate command over one or two config files, with or without
\* writing files and storing into IMAP.
CONSTANTS
    FileLists <- MCFileLists

SPECIFICATION Spec

INVARIANT ValidatedConfigNeverPanics
