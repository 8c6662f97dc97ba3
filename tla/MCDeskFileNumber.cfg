SPECIFICATION DeskSpec
INVARIANT TheFileNumberIsShown
