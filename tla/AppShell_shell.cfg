SPECIFICATION Spec
INVARIANTS TypeOK MarksAreHonest NothingCarriesOver
PROPERTIES SheetIsSeparate
