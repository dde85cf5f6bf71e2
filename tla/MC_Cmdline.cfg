\* Every /proc/cmdline of up to three words.
\* NV: every payload of up to 5 bytes over {0, 1, 0xFF}, so carries out of
\* the low 16 bits and odd lengths both occur.
\* SCI: three blocks after the magic, a signature of 2 bytes against
\* lengths 1 and 4.
\* Head: two region slots, so a third region tests the cap; one boot code
\* word against a 5-byte descriptor; a boot buffer of 8 bytes.
\* Copy: a stack buffer of 2 bytes against sizes 1 and 3 (the heap path),
\* files as long as the size or one byte short.
\* Alive: two opens and three selects.
\* Nodes: a buffer of two entries against up to three nodes.
\* Dispatch: two entries.  Cmdline: up to three words, the key anywhere.
CONSTANTS
  TestBytes = {0, 1, 255}
  MaxLen = 5
  HdrBufLen = 4
  Sha1Size = 2
  MaxRegionNum = 2
  MaxCodeNum = 1
  Garbage = {0, 7}
  BootBuf = 8
  BufStack = 2
  CopySizes = {1, 3}
  FileLens = {0, 1, 2, 3}
  OpenTries = 2
  ReadTries = 3
  CntGarbage <- MC_CntGarbage
  FdGarbage = {"bad", "foreign"}
  MaxNodes = 2
  SecureBuild = TRUE
  MaxWords = 3
SPECIFICATION Spec
INVARIANT CmdlineStripsVendorKey
CHECK_DEADLOCK FALSE
