\* Templates through the delimiter preprocessor, the scanner, the parser, white space control and the printers
CONSTANT
  Templates <- MCTemplates
SPECIFICATION Spec
INVARIANT AsWritten
 
INVARIANT CrashesKnown
PROPERTY EveryTemplateEnds
