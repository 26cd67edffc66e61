---------------------------- MODULE MCFolderSync -----------------------------
EXTENDS FolderSync
==============================================================================
