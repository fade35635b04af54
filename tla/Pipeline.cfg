SPECIFICATION Spec
CONSTANTS
  MaxVersion = 3
  Tools <- AnyTools
INVARIANTS TypeOK ExploredWasTranslated LinksWhatItTranslated
