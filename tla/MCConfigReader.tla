--------------------------- MODULE MCConfigReader ---------------------------
\* ConfigReader with the files of ConfigFiles.
EXTENDS ConfigFiles
=============================================================================
